---- MODULE Spec2Model ----
(***************************************************************************)
(* Model of the order-text pipeline of IXItools:                           *)
(*   Data.py        merges the word-wrapped lines of the PDF text, drops   *)
(*                  the noise lines, truncates at the total-price line and *)
(*                  saves the result as column A of Data.xlsx;             *)
(*   Elementen.py   counts, rule by rule, the cells of Data.xlsx that      *)
(*                  mention a target word;                                 *)
(*   Datahandler.py writes the header strings and the counts into the      *)
(*                  cells of the Opmetingsaanvraag template.               *)
(* A line of text is a TLA+ string; characters are its substrings of       *)
(* length one.  The alphabet of the inputs is ASCII.                       *)
(***************************************************************************)
EXTENDS Integers, Sequences, FiniteSets, TLC

VARIABLES
    text,               \* Data.py: text.split('\n') of the selected PDF
    new_lines,          \* Data.py: the merged (logical) lines
    filtered_lines,     \* Data.py: new_lines without the noise lines
    total_price_index,  \* Data.py: <<i>>, i the 0-based index of the total-price line
    data_exit,          \* how the last run of Data.py ended
    Data_xlsx,          \* the file Data.xlsx: <<rows of column A>>, or Absent
    word_counts,        \* Elementen: the word_counts dict of every rule run
    plinten_count,      \* Elementen.count_plinten: its single counter
    counts,             \* Datahandler._collect_counts(): cell -> count
    ws,                 \* the active sheet of the template workbook
    gen_exit,           \* how the last generate_opmetingsaanvraag ended
    total_count,        \* Elementen: the module globals total_count_*
    items,              \* ShoppingCart.items: the CartItems, in order
    observers,          \* ShoppingCart.observers: the callbacks, in order
    notified,           \* the callbacks the last cart operation called, in order,
                        \* each with the items it found in the cart
    cart_call,          \* the last call of a ShoppingCart method: <<name, argument>>
    cart_exit,          \* how the last call of a ShoppingCart method ended
    appliances,         \* ApplianceFilter.appliances: <<the source list>>
    filter_args,        \* the arguments of the last call of ApplianceFilter.filter
    result,             \* what the last call of ApplianceFilter.filter returned
    filter_exit,        \* how the last call of ApplianceFilter.filter ended
    price_call,         \* the last price conversion asked for: <<name, argument>>
    price_result,       \* what the last price conversion returned: <<values>>
    sort_call,          \* the last call of sort_appliances the tests make: <<arguments>>
    sort_result,        \* what that call returned: <<list>>
    sort_exit,          \* how that call ended
    cache_size,         \* AppConfig.cache_size of the ImageCache: <<n>>
    cache,              \* ImageCache.cache: the <<key, image>> entries, oldest first
    load_call,          \* the arguments of the last load_image: <<filename, size>>
    load_result,        \* what the last load_image returned: <<image>>
    load_exit,          \* how the last load_image ended
    blocks,             \* ApplianceManagerApp.blocks: <<the blocks, in dict order>>
    block_var,          \* FilterPanel.block_var
    category_var,       \* FilterPanel.category_var
    brand_var,          \* FilterPanel.brand_var
    search_var,         \* FilterPanel.search_var
    block_values,       \* the values of FilterPanel.block_menu
    category_values,    \* the values of FilterPanel.category_menu
    brand_values,       \* the values of FilterPanel.brand_menu
    appliance_rows,     \* ResultsPanel.appliance_rows: the appliances shown
    panel_max_points,   \* CartPanel.max_points
    totals_label,       \* the text of CartPanel.totals_label: <<its parts>>
    nesting             \* how deep the last event nested _on_filter_change

\* the fields of the ShoppingCart and the record of its last call
cartVars == <<items, observers, notified, cart_call, cart_exit>>

\* the ApplianceFilter and the record of its last call
filterVars == <<appliances, filter_args, result, filter_exit>>

\* the state of the appliance manager
\* the record of the last price conversion
priceVars == <<price_call, price_result>>

\* the record of the tests' last call of sort_appliances
sortVars == <<sort_call, sort_result, sort_exit>>

\* the ImageCache and the record of its last call
cacheVars == <<cache_size, cache, load_call, load_result, load_exit>>

\* the panels of the ApplianceManagerApp
appVars ==
    <<blocks, block_var, category_var, brand_var, search_var, block_values,
      category_values, brand_values, appliance_rows, panel_max_points, totals_label,
      nesting>>

managerVars == <<cartVars, filterVars, priceVars, sortVars, cacheVars, appVars>>

vars == <<text, new_lines, filtered_lines, total_price_index, data_exit,
          Data_xlsx, word_counts, plinten_count, counts, ws, gen_exit,
          total_count, managerVars>>

\* a cell without a value
None == "None"
\* a variable not assigned yet, a file not written yet
Unset == <<>>
Absent == <<>>

(***************************************************************************)
(* Python string primitives                                                *)
(***************************************************************************)
UpperChars == "ABCDEFGHIJKLMNOPQRSTUVWXYZ"
LowerChars == "abcdefghijklmnopqrstuvwxyz"
DigitChars == "0123456789"

CharAt(s, i) == SubSeq(s, i, i)

CharsOf(s) == {CharAt(s, i) : i \in 1..Len(s)}

LowerOfUpper ==
    [c \in CharsOf(UpperChars) |->
        CharAt(LowerChars, CHOOSE i \in 1..Len(UpperChars) : CharAt(UpperChars, i) = c)]

\* str.islower() of a one-character string
islower(c) == c \in CharsOf(LowerChars)

lower_char(c) == IF c \in DOMAIN LowerOfUpper THEN LowerOfUpper[c] ELSE c

RECURSIVE lower(_)
\* str.lower()
lower(s) == IF s = "" THEN "" ELSE lower_char(CharAt(s, 1)) \o lower(Tail(s))

\* Python's `sub in s` on strings
In(sub, s) ==
    \E i \in 1..(Len(s) - Len(sub) + 1) : SubSeq(s, i, i + Len(sub) - 1) = sub

\* the characters in the order of their code points, by which str compares
CodePointOrder == DigitChars \o UpperChars \o LowerChars

CodePointRank(c) == CHOOSE n \in 1..Len(CodePointOrder) : CharAt(CodePointOrder, n) = c

\* the string s sorts before the string t, or is t
StringLeq(s, t) ==
    \/ \E n \in 1..Len(s) :
          /\ n <= Len(t)
          /\ SubSeq(s, 1, n - 1) = SubSeq(t, 1, n - 1)
          /\ CodePointRank(CharAt(s, n)) < CodePointRank(CharAt(t, n))
    \/ Len(s) <= Len(t) /\ s = SubSeq(t, 1, Len(s))

(***************************************************************************)
(* Data.py                                                                 *)
(***************************************************************************)
NoiseNetto == "Netto afmetingen :"
NoiseLine == "Line n"
TotalPriceLabel == "Totale prijs van uw ingerichte keuken incl. BTW:"

RECURSIVE merge_loop_nospace(_, _)
\* merge_loop with `new_lines[-1] += line`
merge_loop_nospace(acc, rest) ==
    IF rest = <<>> THEN acc
    ELSE LET line == Head(rest) IN
         IF line # "" /\ islower(CharAt(line, 1))
         THEN merge_loop_nospace([acc EXCEPT ![Len(acc)] = @ \o line], Tail(rest))
         ELSE merge_loop_nospace(Append(acc, line), Tail(rest))

RECURSIVE merge_loop(_, _)
\* the for loop of lines 17-21: acc is new_lines, rest the lines still to read
merge_loop(acc, rest) ==
    IF rest = <<>> THEN acc
    ELSE LET line == Head(rest) IN
         IF line # "" /\ islower(CharAt(line, 1))
         THEN merge_loop([acc EXCEPT ![Len(acc)] = @ \o " " \o line], Tail(rest))
         ELSE merge_loop(Append(acc, line), Tail(rest))

merge_lines(t) == merge_loop(<<Head(t)>>, Tail(t))

\* keep_line without the test for 'Line n'
keep_line_netto_only(line) == ~In(NoiseNetto, line)

keep_line(line) == ~In(NoiseNetto, line) /\ ~In(NoiseLine, line)

filter_lines(ls) == SelectSeq(ls, keep_line)

RECURSIVE next_index_skip_first(_, _)
\* next_index over `enumerate(fl[1:], 1)`: the first line is never looked at
next_index_skip_first(fl, i) ==
    IF i >= Len(fl) THEN <<>>
    ELSE IF i > 0 /\ In(TotalPriceLabel, fl[i + 1]) THEN <<i>>
    ELSE next_index_skip_first(fl, i + 1)

\* next(..., len(fl) - 1): the last line when no line carries the label
next_index_default_last(fl, i) ==
    LET hits == {j \in i..(Len(fl) - 1) : In(TotalPriceLabel, fl[j + 1])}
    IN  IF hits = {} THEN <<Len(fl) - 1>>
        ELSE <<CHOOSE j \in hits : \A h \in hits : j <= h>>

RECURSIVE next_index(_, _)
\* next(i for i, line in enumerate(fl) if label in line), scanning from i:
\* <<i>> for the index found, <<>> for the StopIteration of an exhausted generator
next_index(fl, i) ==
    IF i >= Len(fl) THEN <<>>
    ELSE IF In(TotalPriceLabel, fl[i + 1]) THEN <<i>>
    ELSE next_index(fl, i + 1)

\* filtered_lines[1:total_price_index + 1]
written_rows_skip_first(fl, idx) == SubSeq(fl, 2, idx + 1)

\* filtered_lines[:total_price_index]
written_rows_exclusive(fl, idx) == SubSeq(fl, 1, idx)

\* filtered_lines[:total_price_index + 1]
written_rows(fl, idx) == SubSeq(fl, 1, idx + 1)

\* One run of the script on the text t of the selected PDF.
RunData(t) ==
    LET nl == merge_lines(t)
        fl == filter_lines(nl)
        idx == next_index(fl, 0)
    IN  /\ text' = t
        /\ new_lines' = nl
        /\ filtered_lines' = fl
        /\ total_price_index' = idx
        /\ IF idx = <<>>
           THEN /\ data_exit' = "StopIteration"
                /\ Data_xlsx' = Data_xlsx
           ELSE /\ data_exit' = "saved"
                /\ Data_xlsx' = <<written_rows(fl, idx[1])>>
        /\ UNCHANGED <<word_counts, plinten_count, counts, ws, gen_exit, total_count,
                       managerVars>>

(***************************************************************************)
(* Elementen.py                                                            *)
(***************************************************************************)
target_words_onderkasten_kolomkasten ==
    <<"Onderkast", "Hoekkast", "Ladekast", "Kookplaatkast", "Spoelkast",
      "Ombouwkast", "Servies- / Voorraadkast">>
target_words_Hangkasten == <<"Wandkast", "Wand-hoekkast">>
target_words_plinten == <<"SB15", "SB7", "SB20">>
target_words_Kroonlijsten == <<"Kroonlijst">>
target_words_Lichtlijsten == <<"Lichtlijsten">>
target_words_Werkbladen == <<"Werkblad APD", "Werkblad APN">>
target_words_Spoelbak_kraan == <<"Spoelkast", "kraan", "SPOELBAK">>
target_words_Kookplaat == <<"Kookplaatkast", "kookplaat">>
target_words_Dampkap == <<"vlakscherm", "Wandschouwkap", "Wanddampkap", "dampkap">>
target_words_Oven == <<"oven">>
target_words_Microgolfoven == <<"magnetron">>
target_words_koelkast ==
    <<"Ombouwkast koel / vries", "Ombouwkast koelautomaat", "GD1">>
target_words_Vaatwasser == <<"Deurfront voor", "Deurfront in", "Doorlopend deurfront">>
target_words_Passtukken == <<"passtuk">>
target_words_afdekbodems == <<"afdekbodem">>
target_words_Deur_vaatwasser ==
    <<"Deurfront voor", "Deurfront in", "Doorlopend deurfront">>
target_words_Achterwand == <<"Achterwandbekleding">>
target_words_Zij_steunwand ==
    <<"HWK10", "HWK16", "HWK25", "HWK50", "WA10", "WA16", "WA25", "WA50",
      "WW10", "WW16", "WW25", "WW50", "WR10", "WR16", "WR25", "WR50", "Steunvoet">>
target_words_Andere == <<"LineN">>
target_words_Verlichting == <<"LNDERB">>

\* the count_* functions Elementen defines, each with its target_words_* list
ElementenRules ==
    {"onderkasten_kolomkasten", "Hangkasten", "plinten", "Kroonlijsten",
     "Lichtlijsten", "Werkbladen", "Spoelbak_kraan", "Kookplaat", "Dampkap",
     "Oven", "Microgolfoven", "koelkast", "Vaatwasser", "Passtukken",
     "afdekbodems", "Deur_vaatwasser", "Achterwand", "Zij_steunwand", "Andere",
     "Verlichting"}

target_words(rule) ==
    CASE rule = "onderkasten_kolomkasten" -> target_words_onderkasten_kolomkasten
      [] rule = "Hangkasten" -> target_words_Hangkasten
      [] rule = "plinten" -> target_words_plinten
      [] rule = "Kroonlijsten" -> target_words_Kroonlijsten
      [] rule = "Lichtlijsten" -> target_words_Lichtlijsten
      [] rule = "Werkbladen" -> target_words_Werkbladen
      [] rule = "Spoelbak_kraan" -> target_words_Spoelbak_kraan
      [] rule = "Kookplaat" -> target_words_Kookplaat
      [] rule = "Dampkap" -> target_words_Dampkap
      [] rule = "Oven" -> target_words_Oven
      [] rule = "Microgolfoven" -> target_words_Microgolfoven
      [] rule = "koelkast" -> target_words_koelkast
      [] rule = "Vaatwasser" -> target_words_Vaatwasser
      [] rule = "Passtukken" -> target_words_Passtukken
      [] rule = "afdekbodems" -> target_words_afdekbodems
      [] rule = "Deur_vaatwasser" -> target_words_Deur_vaatwasser
      [] rule = "Achterwand" -> target_words_Achterwand
      [] rule = "Zij_steunwand" -> target_words_Zij_steunwand
      [] rule = "Andere" -> target_words_Andere
      [] rule = "Verlichting" -> target_words_Verlichting

\* `word in cell_value.lower()`
word_in_cell_unlowered_word(word, cell_lower) == In(word, cell_lower)

\* `word.lower() in cell_value.lower()`, cell_lower being cell_value.lower()
word_in_cell(word, cell_lower) == In(lower(word), cell_lower)

\* the guard without its second exclusion
onderkasten_guard_first_only(cell_lower) == ~In("wand-hoekkast", cell_lower)

\* the guard of count_onderkasten_kolomkasten, line 23
onderkasten_guard(cell_lower) ==
    /\ ~In("wand-hoekkast", cell_lower)
    /\ ~In("kleinere dieptes bij onderkast", cell_lower)

\* a character of [A-Za-z0-9_], the \w of the inputs' alphabet
is_word_char(c) ==
    c \in CharsOf(UpperChars) \cup CharsOf(LowerChars) \cup CharsOf(DigitChars) \cup {"_"}

\* \b between positions i and i+1 of s (0 <= i <= Len(s))
word_boundary(s, i) ==
    LET before == i >= 1 /\ is_word_char(CharAt(s, i))
        after == i < Len(s) /\ is_word_char(CharAt(s, i + 1))
    IN  before # after

\* re_search_word without the two \b of the pattern
re_search_word_unanchored(word, cell_value) ==
    \E i \in 1..(Len(cell_value) - Len(word) + 1) :
        lower(SubSeq(cell_value, i, i + Len(word) - 1)) = lower(word)

\* re.search(r"\b{}\b".format(re.escape(word)), cell_value, re.IGNORECASE)
re_search_word(word, cell_value) ==
    \E i \in 1..(Len(cell_value) - Len(word) + 1) :
        /\ lower(SubSeq(cell_value, i, i + Len(word) - 1)) = lower(word)
        /\ word_boundary(cell_value, i - 1)
        /\ word_boundary(cell_value, i + Len(word) - 1)

\* the number of places of s where sub starts
occurrences(sub, s) ==
    Cardinality({i \in 1..(Len(s) - Len(sub) + 1) : SubSeq(s, i, i + Len(sub) - 1) = sub})

\* cell_increment adding once per occurrence of the word in the cell
cell_increment_per_occurrence(rule, word, cell_value, cell_lower) ==
    CASE rule = "onderkasten_kolomkasten" ->
            IF onderkasten_guard(cell_lower) THEN occurrences(lower(word), cell_lower) ELSE 0
      [] rule = "Deur_vaatwasser" ->
            occurrences(lower(word), cell_lower) * (IF lower(word) = "deurfront in" THEN 2 ELSE 1)
      [] rule = "Achterwand" ->
            IF re_search_word(word, cell_value)
            THEN (IF lower(word) = "achterwandbekledingen" THEN 0 ELSE 1)
            ELSE 0
      [] OTHER -> occurrences(lower(word), cell_lower)

\* cell_increment comparing `word == "deurfront in"`
cell_increment_weight_by_exact_word(rule, word, cell_value, cell_lower) ==
    CASE rule = "onderkasten_kolomkasten" ->
            IF onderkasten_guard(cell_lower)
            THEN (IF word_in_cell(word, cell_lower) THEN 1 ELSE 0)
            ELSE 0
      [] rule = "Deur_vaatwasser" ->
            IF word_in_cell(word, cell_lower)
            THEN (IF word = "deurfront in" THEN 2 ELSE 1)
            ELSE 0
      [] rule = "Achterwand" ->
            IF re_search_word(word, cell_value)
            THEN (IF lower(word) = "achterwandbekledingen" THEN 0 ELSE 1)
            ELSE 0
      [] OTHER -> IF word_in_cell(word, cell_lower) THEN 1 ELSE 0

\* What one cell adds to word_counts[word] (to plinten_count for plinten);
\* cell_lower is cell_value.lower().
cell_increment(rule, word, cell_value, cell_lower) ==
    CASE rule = "onderkasten_kolomkasten" ->
            IF onderkasten_guard(cell_lower)
            THEN (IF word_in_cell(word, cell_lower) THEN 1 ELSE 0)
            ELSE 0
      [] rule = "Deur_vaatwasser" ->
            IF word_in_cell(word, cell_lower)
            THEN (IF lower(word) = "deurfront in" THEN 2 ELSE 1)
            ELSE 0
      [] rule = "Achterwand" ->
            IF re_search_word(word, cell_value)
            THEN (IF lower(word) = "achterwandbekledingen" THEN 0 ELSE 1)
            ELSE 0
      [] OTHER -> IF word_in_cell(word, cell_lower) THEN 1 ELSE 0

\* the loop `for word in words` on one cell: the increment of every word
row_increments(rule, cell_value) ==
    LET cell_lower == lower(cell_value)
        words == target_words(rule)
    IN  [k \in 1..Len(words) |-> cell_increment(rule, words[k], cell_value, cell_lower)]

RECURSIVE scan_rows_stop_after_hit(_, _, _)
\* scan_rows leaving the loops at the first cell that matched a word
scan_rows_stop_after_hit(rule, rows, wc) ==
    IF rows = <<>> THEN wc
    ELSE IF Head(rows) = "" THEN scan_rows_stop_after_hit(rule, Tail(rows), wc)
    ELSE LET inc == row_increments(rule, Head(rows))
             sum == [k \in DOMAIN wc |-> wc[k] + inc[k]]
         IN  IF \E k \in DOMAIN inc : inc[k] > 0 THEN sum
             ELSE scan_rows_stop_after_hit(rule, Tail(rows), sum)

RECURSIVE scan_rows(_, _, _)
\* the loops over the sheet's rows and cells, wc being word_counts so far;
\* a cell without a value (an empty row) is skipped
scan_rows(rule, rows, wc) ==
    IF rows = <<>> THEN wc
    ELSE IF Head(rows) = "" THEN scan_rows(rule, Tail(rows), wc)
    ELSE LET inc == row_increments(rule, Head(rows))
         IN  scan_rows(rule, Tail(rows), [k \in DOMAIN wc |-> wc[k] + inc[k]])

\* scan_workbook with one dict shared by the count_* functions and never
\* reset: a word starts from the tally another rule left for it
scan_workbook_shared_dict(rule, rows) ==
    LET words == target_words(rule)
        Left(k) == {p \in UNION {{<<r, j>> : j \in 1..Len(target_words(r))} :
                                     r \in DOMAIN word_counts} :
                       target_words(p[1])[p[2]] = words[k]}
    IN  scan_rows(rule, rows,
                  [k \in 1..Len(words) |->
                      IF Left(k) = {} THEN 0
                      ELSE LET p == CHOOSE p \in Left(k) : TRUE IN word_counts[p[1]][p[2]]])

\* the word_counts dict at the end of the loops, keyed by position in words
scan_workbook(rule, rows) ==
    scan_rows(rule, rows, [k \in 1..Len(target_words(rule)) |-> 0])

RECURSIVE sum_values(_)
\* sum(word_counts.values())
sum_values(wc) == IF wc = <<>> THEN 0 ELSE Head(wc) + sum_values(Tail(wc))

\* plinten_total without the `if plinten_count > 0 and total < 1`
plinten_total_floor_only(n) == n \div 2

\* math.floor(plinten_count / 2), at least 1 when anything was counted
plinten_total(n) ==
    LET half == n \div 2 IN IF n > 0 /\ half < 1 THEN 1 ELSE half

\* rule_total with the caps as upper limits: min(total, N)
rule_total_cap_as_limit(rule, total) ==
    CASE rule = "plinten" -> plinten_total(total)
      [] rule = "Spoelbak_kraan" -> IF total >= 3 THEN 3 ELSE total
      [] rule \in {"Kookplaat", "koelkast"} -> total * 2
      [] rule \in {"Dampkap", "Oven", "Microgolfoven"} -> IF total >= 1 THEN 1 ELSE total
      [] rule = "Andere" -> IF total >= 5 THEN 5 ELSE total
      [] OTHER -> total

\* rule_total with count_koelkast returning the plain sum
rule_total_koelkast_plain(rule, total) ==
    CASE rule = "plinten" -> plinten_total(total)
      [] rule = "Spoelbak_kraan" -> IF total >= 1 THEN 3 ELSE total
      [] rule = "Kookplaat" -> total * 2
      [] rule \in {"Dampkap", "Oven", "Microgolfoven"} -> IF total >= 1 THEN 1 ELSE total
      [] rule = "Andere" -> IF total >= 1 THEN 5 ELSE total
      [] OTHER -> total

\* the total a count_* function returns, from the sum of its word_counts
rule_total(rule, total) ==
    CASE rule = "plinten" -> plinten_total(total)
      [] rule = "Spoelbak_kraan" -> IF total >= 1 THEN 3 ELSE total
      [] rule \in {"Kookplaat", "koelkast"} -> total * 2
      [] rule \in {"Dampkap", "Oven", "Microgolfoven"} -> IF total >= 1 THEN 1 ELSE total
      [] rule = "Andere" -> IF total >= 1 THEN 5 ELSE total
      [] OTHER -> total

\* the value count_rule returns, from the word_counts its loops ended with
count_from(rule, wc) == rule_total(rule, sum_values(wc))

\* count_rule(filename, target_words_rule), rows being the cells of the file
count_rule(rule, rows) == count_from(rule, scan_workbook(rule, rows))

(***************************************************************************)
(* Datahandler.py                                                          *)
(***************************************************************************)
CELL_MAPPING ==
    (1 :> "C6") @@ (2 :> "C7") @@ (3 :> "C9") @@ (4 :> "C10") @@ (5 :> "D12") @@ (6 :> "G6")

\* the keys of the dict _collect_counts builds, with the rule each one calls
CountCell ==
    [E15 |-> "onderkasten_kolomkasten", E16 |-> "Hangkasten", E17 |-> "plinten",
     E18 |-> "Kroonlijsten", E19 |-> "Lichtlijsten", E20 |-> "Werkbladen",
     E21 |-> "Spoelbak_kraan", E22 |-> "Kookplaat", E23 |-> "Dampkap",
     E24 |-> "Oven", E25 |-> "Microgolfoven", E26 |-> "koelkast",
     E27 |-> "Vaatwasser", E30 |-> "Passtukken", E33 |-> "Deur_vaatwasser",
     E34 |-> "Achterwand", E35 |-> "Zij_steunwand", E37 |-> "Andere",
     E38 |-> "Verlichting"]

CollectedRules == {CountCell[c] : c \in DOMAIN CountCell}

\* _collect_counts(), wcs being the word_counts of every rule it calls
_collect_counts(wcs) == [c \in DOMAIN CountCell |-> count_from(CountCell[c], wcs[CountCell[c]])]

\* the cells of the template the model follows: the header cells, the count
\* cells and one cell the program never names
TemplateCells == {CELL_MAPPING[i] : i \in DOMAIN CELL_MAPPING} \cup DOMAIN CountCell \cup {"A1"}

Template == [c \in TemplateCells |-> IF c = "A1" THEN "Opmetingsaanvraag" ELSE None]

\* _write_header with `enumerate(data)`: the positions count from 0
_write_header_from_zero(sheet, data) ==
    [c \in DOMAIN sheet |->
        IF \E i \in 1..(Len(data) - 1) : i \in DOMAIN CELL_MAPPING /\ CELL_MAPPING[i] = c
        THEN data[1 + CHOOSE i \in 1..(Len(data) - 1) :
                          i \in DOMAIN CELL_MAPPING /\ CELL_MAPPING[i] = c]
        ELSE sheet[c]]

\* _write_header(ws, data)
_write_header(sheet, data) ==
    [c \in DOMAIN sheet |->
        IF \E i \in 1..Len(data) : i \in DOMAIN CELL_MAPPING /\ CELL_MAPPING[i] = c
        THEN data[CHOOSE i \in 1..Len(data) : i \in DOMAIN CELL_MAPPING /\ CELL_MAPPING[i] = c]
        ELSE sheet[c]]

\* the loop `for cell, value in _collect_counts().items(): ws[cell] = value`
write_counts(sheet, cnt) ==
    [c \in DOMAIN sheet |-> IF c \in DOMAIN cnt THEN cnt[c] ELSE sheet[c]]

\* the count_* functions in the order the module body of Elementen calls them
ElementenOrder ==
    <<"onderkasten_kolomkasten", "Hangkasten", "plinten", "Kroonlijsten",
      "Lichtlijsten", "Werkbladen", "Spoelbak_kraan", "Kookplaat", "Dampkap",
      "Oven", "Microgolfoven", "koelkast", "Vaatwasser", "Passtukken",
      "afdekbodems", "Deur_vaatwasser", "Achterwand", "Zij_steunwand", "Andere",
      "Verlichting">>

\* the keys of the dict display of _collect_counts, in the order it evaluates them
CollectOrder ==
    <<"E15", "E16", "E17", "E18", "E19", "E20", "E21", "E22", "E23", "E24", "E25",
      "E26", "E27", "E30", "E33", "E34", "E35", "E37", "E38">>

\* the first element of order that is not done yet
NextOf(order, done) ==
    order[CHOOSE i \in 1..Len(order) :
              order[i] \notin done /\ \A j \in 1..(i - 1) : order[j] \in done]

\* One statement `total_count_rule = count_rule(filename, target_words_rule)` of
\* the module body of Elementen, run when Datahandler imports the module.
import_Elementen_step ==
    IF Data_xlsx = Absent
    THEN /\ gen_exit' = "FileNotFoundError"
         /\ UNCHANGED <<text, new_lines, filtered_lines, total_price_index, data_exit,
                        Data_xlsx, word_counts, plinten_count, counts, ws, total_count,
                        managerVars>>
    ELSE LET rule == NextOf(ElementenOrder, DOMAIN total_count)
         IN  /\ total_count' = total_count @@ (rule :> count_rule(rule, Data_xlsx[1]))
             /\ UNCHANGED <<text, new_lines, filtered_lines, total_price_index,
                            data_exit, Data_xlsx, word_counts, plinten_count, counts, ws,
                            gen_exit, managerVars>>

\* One entry of the dict display of _collect_counts: the call of a count_*
\* function, whose word_counts (plinten_count) is local to the call.
_collect_counts_step ==
    LET c == NextOf(CollectOrder, DOMAIN counts)
        rule == CountCell[c]
        wc == scan_workbook(rule, Data_xlsx[1])
    IN  /\ IF rule = "plinten"
           THEN /\ plinten_count' = sum_values(wc)
                /\ word_counts' = word_counts
           ELSE /\ word_counts' = word_counts @@ (rule :> wc)
                /\ plinten_count' = plinten_count
        /\ counts' = counts @@ (c :> count_from(rule, wc))
        /\ UNCHANGED <<text, new_lines, filtered_lines, total_price_index, data_exit,
                       Data_xlsx, ws, gen_exit, total_count, managerVars>>

\* The statements of generate_opmetingsaanvraag around _collect_counts():
\* the header and the collected counts are written and the workbook is saved.
save_sheet(header) ==
    /\ ws' = write_counts(_write_header(ws, header), counts)
    /\ gen_exit' = "saved"
    /\ UNCHANGED <<text, new_lines, filtered_lines, total_price_index, data_exit,
                   Data_xlsx, word_counts, plinten_count, counts, total_count,
                   managerVars>>

\* generate_opmetingsaanvraag, with header the strings GOT.get_output() returns.
\* Importing Datahandler imports Elementen, whose module body opens Data.xlsx:
\* without the file nothing is generated.  The module body and _collect_counts
\* call the same function on the same file: a rule both evaluate is scanned once
\* here, and call by call in import_Elementen_step and _collect_counts_step.
generate_opmetingsaanvraag(header) ==
    IF Data_xlsx = Absent
    THEN /\ gen_exit' = "FileNotFoundError"
         /\ UNCHANGED <<text, new_lines, filtered_lines, total_price_index, data_exit,
                        Data_xlsx, word_counts, plinten_count, counts, ws, total_count,
                        managerVars>>
    ELSE /\ word_counts' =
                [rule \in CollectedRules \ {"plinten"} |-> scan_workbook(rule, Data_xlsx[1])]
         /\ plinten_count' = sum_values(scan_workbook("plinten", Data_xlsx[1]))
         /\ counts' = _collect_counts(word_counts' @@ ("plinten" :> <<plinten_count'>>))
         /\ ws' = write_counts(_write_header(ws, header), counts')
         /\ gen_exit' = "saved"
         /\ total_count' =
                [rule \in ElementenRules |->
                    IF rule \in CollectedRules
                    THEN counts'[CHOOSE c \in DOMAIN CountCell : CountCell[c] = rule]
                    ELSE count_rule(rule, Data_xlsx[1])]
         /\ UNCHANGED <<text, new_lines, filtered_lines, total_price_index, data_exit,
                        Data_xlsx, managerVars>>

(***************************************************************************)
(* ApplianceManagerFrame.py: ShoppingCart                                  *)
(***************************************************************************)
\* CartItem(appliance), quantity defaulting to 1
CartItem(appliance) == [appliance |-> appliance, quantity |-> 1]

\* the positions of the items an appliance's code selects
items_with_code(its, appliance) ==
    {i \in 1..Len(its) : its[i].appliance.code = appliance.code}

\* _notify_observers() without the try: the first exception ends the loop and
\* leaves the cart method
_notify_observers_unguarded ==
    LET raising == {i \in 1..Len(observers) : observers[i] = "raises"}
        last == IF raising = {} THEN Len(observers)
                ELSE CHOOSE i \in raising : \A j \in raising : i <= j
    IN  /\ notified' = [i \in 1..last |-> [callback |-> observers[i], sees |-> items']]
        /\ cart_exit' = IF raising = {} THEN "returned" ELSE "Exception"

\* _notify_observers(): every callback is called, in order, when the items are
\* updated; an exception of a callback is caught and logged
_notify_observers ==
    /\ notified' = [i \in 1..Len(observers) |->
                        [callback |-> observers[i], sees |-> items']]
    /\ cart_exit' = "returned"

\* add_item comparing `item.appliance == appliance`, all the fields
add_item_compare_appliance(appliance) ==
    LET found == {i \in 1..Len(items) : items[i].appliance = appliance}
    IN  /\ IF found # {}
           THEN LET i == CHOOSE i \in found : \A j \in found : i <= j
                IN  items' = [items EXCEPT ![i].quantity = @ + 1]
           ELSE items' = Append(items, CartItem(appliance))
        /\ _notify_observers
        /\ cart_call' = <<"add_item", appliance>>
        /\ UNCHANGED observers

\* ShoppingCart.add_item(appliance)
add_item(appliance) ==
    LET found == items_with_code(items, appliance)
    IN  /\ IF found # {}
           THEN LET i == CHOOSE i \in found : \A j \in found : i <= j
                IN  items' = [items EXCEPT ![i].quantity = @ + 1]
           ELSE items' = Append(items, CartItem(appliance))
        /\ _notify_observers
        /\ cart_call' = <<"add_item", appliance>>
        /\ UNCHANGED observers

\* remove_item taking one piece off the entry, the entry going with its last piece
remove_item_one_piece(appliance) ==
    LET left(item) == item.quantity >= 1
        less == [i \in 1..Len(items) |->
                    IF items[i].appliance.code = appliance.code
                    THEN [items[i] EXCEPT !.quantity = @ - 1] ELSE items[i]]
    IN  /\ items' = SelectSeq(less, left)
        /\ _notify_observers
        /\ cart_call' = <<"remove_item", appliance>>
        /\ UNCHANGED observers

\* ShoppingCart.remove_item(appliance)
remove_item(appliance) ==
    LET keep(item) == item.appliance.code # appliance.code
    IN  /\ items' = SelectSeq(items, keep)
        /\ _notify_observers
        /\ cart_call' = <<"remove_item", appliance>>
        /\ UNCHANGED observers

\* ShoppingCart.clear()
clear ==
    /\ items' = <<>>
    /\ _notify_observers
    /\ cart_call' = <<"clear">>
    /\ UNCHANGED observers

\* ShoppingCart.add_observer(callback)
add_observer(callback) ==
    /\ observers' = Append(observers, callback)
    /\ cart_call' = <<"add_observer", callback>>
    /\ cart_exit' = "returned"
    /\ UNCHANGED <<items, notified>>

RECURSIVE get_total_points(_)
\* ShoppingCart.get_total_points() on the items its
get_total_points(its) ==
    IF its = <<>> THEN 0
    ELSE Head(its).appliance.points * Head(its).quantity + get_total_points(Tail(its))

(***************************************************************************)
(* ApplianceManagerFrame.py: ApplianceFilter                               *)
(***************************************************************************)
\* the truth value of an Optional[str]: None and '' are false
truthy(str) == str # None /\ str # ""

\* filter testing `if max_points:`
filter_truthy_max_points(apps, category, brand, max_points, search_term) ==
    LET in_category(a) == a.category = category
        of_brand(a) == a.brand = brand
        within(a) == a.points <= max_points[1]
        found(a) == \/ In(lower(search_term), lower(a.code))
                    \/ In(lower(search_term), lower(a.brand))
        r1 == IF truthy(category) /\ category # "-" THEN SelectSeq(apps, in_category) ELSE apps
        r2 == IF truthy(brand) /\ brand # "-" THEN SelectSeq(r1, of_brand) ELSE r1
        r3 == IF max_points # <<>> /\ max_points # <<0>> THEN SelectSeq(r2, within) ELSE r2
    IN  IF truthy(search_term) THEN SelectSeq(r3, found) ELSE r3

\* ApplianceFilter.filter(category, brand, max_points, search_term) on the list
\* apps; max_points is <<>> for None and <<n>> for the integer n
filter(apps, category, brand, max_points, search_term) ==
    LET in_category(a) == a.category = category
        of_brand(a) == a.brand = brand
        within(a) == a.points <= max_points[1]
        found(a) == \/ In(lower(search_term), lower(a.code))
                    \/ In(lower(search_term), lower(a.brand))
        r1 == IF truthy(category) /\ category # "-" THEN SelectSeq(apps, in_category) ELSE apps
        r2 == IF truthy(brand) /\ brand # "-" THEN SelectSeq(r1, of_brand) ELSE r1
        r3 == IF max_points # <<>> THEN SelectSeq(r2, within) ELSE r2
    IN  IF truthy(search_term) THEN SelectSeq(r3, found) ELSE r3

\* ApplianceFilter(appliances): the filter keeps the list it is given
ApplianceFilter_init(apps) ==
    /\ appliances' = <<apps>>
    /\ UNCHANGED <<filter_args, result, filter_exit>>

\* a call of filter on the filter object
call_filter(category, brand, max_points, search_term) ==
    /\ result' = <<filter(appliances[1], category, brand, max_points, search_term)>>
    /\ filter_args' = [category |-> category, brand |-> brand,
                       max_points |-> max_points, search_term |-> search_term]
    /\ filter_exit' = "returned"
    /\ UNCHANGED appliances

\* the parameters filter() declares besides self; each defaults to None
filter_parameters == {"category", "brand", "max_points", "search_term"}

\* the value filter() sees for a parameter: the keyword's, or the default None
bound(kwargs, name) ==
    IF name \in DOMAIN kwargs THEN kwargs[name]
    ELSE IF name = "max_points" THEN <<>> ELSE None

\* a call filter(**kwargs): a keyword that is no parameter of filter is a
\* TypeError raised before the body runs, and nothing is returned
call_filter_kwargs(kwargs) ==
    /\ filter_args' = kwargs
    /\ IF DOMAIN kwargs \subseteq filter_parameters
       THEN /\ result' = <<filter(appliances[1], bound(kwargs, "category"),
                                   bound(kwargs, "brand"), bound(kwargs, "max_points"),
                                   bound(kwargs, "search_term"))>>
            /\ filter_exit' = "returned"
       ELSE /\ result' = Unset
            /\ filter_exit' = "TypeError"
    /\ UNCHANGED appliances

\* the variables of the order-text pipeline
pipelineVars ==
    <<text, new_lines, filtered_lines, total_price_index, data_exit, Data_xlsx,
      word_counts, plinten_count, counts, ws, gen_exit, total_count>>

\* what the cart, the filter and the price conversions leave alone
besidesCart == <<pipelineVars, filterVars, priceVars, sortVars, cacheVars, appVars>>
besidesFilter == <<pipelineVars, cartVars, priceVars, sortVars, cacheVars, appVars>>
besidesPrice == <<pipelineVars, cartVars, filterVars, sortVars, cacheVars, appVars>>
besidesSort == <<pipelineVars, cartVars, filterVars, priceVars, cacheVars, appVars>>
besidesCache == <<pipelineVars, cartVars, filterVars, priceVars, sortVars, appVars>>
besidesApp == <<pipelineVars, priceVars, sortVars>>

(***************************************************************************)
(* ApplianceManagerFrame.py: Appliance, the price conversions              *)
(* A float of the code is the fraction <<numerator, denominator>>; on the  *)
(* points and prices of the inputs the float products and quotients round  *)
(* and compare as the fractions do.                                        *)
(***************************************************************************)
\* the literals 0.06 and 0.21 of vat_rate
vat_low == <<6, 100>>
vat_high == <<21, 100>>

\* the literals 0.344, 0.393 and 0.685
coeff_low == <<344, 1000>>
coeff_high == <<393, 1000>>
euro_per_point == <<685, 1000>>

\* the literal 0.5
one_half == <<1, 2>>

\* n * q, n an integer and q a fraction
times(n, q) == <<n * q[1], q[2]>>

\* n - q, n an integer and q a fraction
minus(n, q) == <<n * q[2] - q[1], q[2]>>

\* q / r, fractions with positive denominators and r positive
over(q, r) == <<q[1] * r[2], q[2] * r[1]>>

\* math.ceil(q)
ceil(q) == -((-q[1]) \div q[2])

\* Appliance._round_half_up(value): Decimal's ROUND_HALF_UP rounds a tie away
\* from zero
_round_half_up(value) ==
    IF value[1] >= 0
    THEN (2 * value[1] + value[2]) \div (2 * value[2])
    ELSE -((2 * (-value[1]) + value[2]) \div (2 * value[2]))

\* Appliance.vat_rate
vat_rate(a) == IF lower(a.category) = "afzuigkappen" THEN vat_low ELSE vat_high

\* internal_price comparing the category as it is spelled
internal_price_case_sensitive(a) ==
    LET coeff == IF a.category = "afzuigkappen" THEN coeff_low ELSE coeff_high
    IN  _round_half_up(times(a.points, coeff))

\* Appliance.internal_price
internal_price(a) ==
    LET coeff == IF vat_rate(a) = vat_low THEN coeff_low ELSE coeff_high
    IN  _round_half_up(times(a.points, coeff))

\* Appliance.catalog_price
catalog_price(a) == _round_half_up(times(a.points, euro_per_point))

\* points_from_catalog_price rounding to the nearest number of points
points_from_catalog_price_nearest(price) ==
    _round_half_up(over(minus(price, one_half), euro_per_point))

\* Appliance.points_from_catalog_price(price)
points_from_catalog_price(price) == ceil(over(minus(price, one_half), euro_per_point))

(***************************************************************************)
(* ApplianceManagerFrame.py: ImageCache                                    *)
(* The OrderedDict is the sequence of its <<key, image>> entries in        *)
(* iteration order; an image is what it shows and its size.                *)
(***************************************************************************)
\* AppConfig.img_size
img_size == <<160, 110>>

\* ctk.CTkImage(image, size=size) of a file or a placeholder text
CTkImage(shows, size) == [shows |-> shows, size |-> size]

\* the keys of the cache c
cache_keys(c) == {c[i][1] : i \in 1..Len(c)}

\* c[key]
cache_get(c, key) == c[CHOOSE i \in 1..Len(c) : c[i][1] = key][2]

\* c.move_to_end(key)
move_to_end(c, key) ==
    LET i == CHOOSE i \in 1..Len(c) : c[i][1] = key
    IN  SubSeq(c, 1, i - 1) \o SubSeq(c, i + 1, Len(c)) \o <<c[i]>>

\* c[key] = image for a key the cache does not hold
cache_set(c, key, image) == Append(c, <<key, image>>)

\* the size check dropping the newest entry
enforce_limit_newest(c, limit) == IF Len(c) > limit THEN SubSeq(c, 1, Len(c) - 1) ELSE c

\* if len(c) > cache_size: c.popitem(last=False)
enforce_limit(c, limit) == IF Len(c) > limit THEN Tail(c) ELSE c

\* _get_error_image(size): the cache after the call
_get_error_image(c, size, limit) ==
    LET key == <<"ERROR", size>>
    IN  IF key \notin cache_keys(c)
        THEN enforce_limit(cache_set(c, key, CTkImage("Error", size)), limit)
        ELSE c

\* ImageCache(config)
ImageCache_init(size) ==
    /\ cache_size' = <<size>>
    /\ cache' = <<>>
    /\ UNCHANGED <<load_call, load_result, load_exit>>

\* ImageCache.load_image(filename, size) on the cache c of the given limit:
\* the cache after the call, what the call returns and how it ends.  present:
\* the file exists under the image directory; raises: "no" exception, one in
\* the "load" of the image, or one in the making of "every" image, the error
\* image included
load_image_on(c, limit, filename, size, present, raises) ==
    LET sz == IF size = <<>> THEN img_size ELSE size
        key == <<filename, sz>>
        shows == IF truthy(filename)
                 THEN IF present THEN filename ELSE "Not Found"
                 ELSE "No Image"
        failed == _get_error_image(c, sz, limit)
    IN  IF key \in cache_keys(c)
        THEN [cache |-> move_to_end(c, key), result |-> <<cache_get(c, key)>>,
              exit |-> "returned"]
        ELSE IF raises = "no"
        THEN [cache |-> enforce_limit(cache_set(c, key, CTkImage(shows, sz)), limit),
              result |-> <<CTkImage(shows, sz)>>, exit |-> "returned"]
        ELSE IF raises = "load" \/ <<"ERROR", sz>> \in cache_keys(c)
        THEN IF <<"ERROR", sz>> \in cache_keys(failed)
             THEN [cache |-> failed, result |-> <<cache_get(failed, <<"ERROR", sz>>)>>,
                   exit |-> "returned"]
             ELSE [cache |-> failed, result |-> Unset, exit |-> "KeyError"]
        ELSE [cache |-> c, result |-> Unset, exit |-> "Exception"]

\* a call of load_image on the cache object
load_image(filename, size, present, raises) ==
    LET out == load_image_on(cache, cache_size[1], filename, size, present, raises)
    IN  /\ load_call' = <<filename, size>>
        /\ cache' = out.cache
        /\ load_result' = out.result
        /\ load_exit' = out.exit
        /\ UNCHANGED cache_size

(***************************************************************************)
(* ApplianceManagerFrame.py: FilterPanel, ResultsPanel, CartPanel and the  *)
(* ApplianceManagerApp that wires them.  A handler is a function from the  *)
(* state of the panels before it to their state after it: a write to one   *)
(* of the traced StringVars runs _on_filter_change before it returns.  The *)
(* widgets make their images without an exception.                         *)
(***************************************************************************)
\* the depth of nested handler calls after which the interpreter raises
\* RecursionError
MaxNesting == 4

CATEGORIES ==
    <<"afzuigkappen", "bakovens", "kookplaat", "vaatwasser", "koelkast", "microgolf">>

\* AppConfig.cache_size
AppConfig_cache_size == 100

\* the members of a list
elements(s) == {s[i] : i \in 1..Len(s)}

\* selected_block in self.blocks
has_block(bl, name) == \E i \in 1..Len(bl) : bl[i].name = name

\* self.blocks[selected_block].max_points
block_max_points(bl, name) ==
    bl[CHOOSE i \in 1..Len(bl) : bl[i].name = name].max_points

RECURSIVE sorted(_)
\* sorted(S) for a set of strings
sorted(S) ==
    IF S = {} THEN <<>>
    ELSE LET m == CHOOSE x \in S : \A y \in S : StringLeq(x, y)
         IN  <<m>> \o sorted(S \ {m})

\* ApplianceFilter.get_brands_for_category(category, max_points)
get_brands_for_category(apps, category, max_points) ==
    LET in_category(a) == a.category = category
        within(a) == a.points <= max_points[1]
        by_category == SelectSeq(apps, in_category)
        found == IF max_points # <<>> THEN SelectSeq(by_category, within) ELSE by_category
    IN  <<"-">> \o sorted({found[i].brand : i \in 1..Len(found)})

RECURSIVE strip(_)
\* str.strip() of blanks
strip(str) ==
    IF str = "" THEN ""
    ELSE IF CharAt(str, 1) = " " THEN strip(SubSeq(str, 2, Len(str)))
    ELSE IF CharAt(str, Len(str)) = " " THEN strip(SubSeq(str, 1, Len(str) - 1))
    ELSE str

RECURSIVE get_total_price(_)
\* ShoppingCart.get_total_price() on the items its
get_total_price(its) ==
    IF its = <<>> THEN 0
    ELSE internal_price(Head(its).appliance) * Head(its).quantity
            + get_total_price(Tail(its))

\* the state of the panels, the image cache and the filter as an event finds it
panels ==
    [block_var |-> block_var, category_var |-> category_var, brand_var |-> brand_var,
     search_var |-> search_var, block_values |-> block_values,
     category_values |-> category_values, brand_values |-> brand_values,
     appliance_rows |-> appliance_rows, max_points |-> panel_max_points,
     totals_label |-> totals_label, cache |-> cache, load_call |-> load_call,
     load_result |-> load_result, load_exit |-> load_exit,
     filter_args |-> filter_args, result |-> result, filter_exit |-> filter_exit,
     depth |-> 0, nesting |-> 0]

RECURSIVE load_images(_, _, _)
\* the load_image call of every row made for the appliances apps; an appliance
\* of the model has no img
load_images(g, apps, size) ==
    IF apps = <<>> THEN g
    ELSE LET out == load_image_on(g.cache, AppConfig_cache_size, None, size, FALSE, "no")
         IN  load_images([g EXCEPT !.cache = out.cache, !.load_call = <<None, size>>,
                                   !.load_result = out.result, !.load_exit = out.exit],
                         Tail(apps), size)

\* ResultsPanel.update_appliances(appliances)
update_appliances(g, rows) == load_images([g EXCEPT !.appliance_rows = rows], rows, <<>>)

\* update_totals that shows the new limit without keeping it
update_totals_forgets_limit(g, limit, its) ==
    LET total_points == get_total_points(its)
        remaining_points == limit - total_points
        status == IF remaining_points >= 0
                  THEN <<"Resterend", remaining_points>>
                  ELSE <<"Overschrijding", -remaining_points>>
    IN  [g EXCEPT !.totals_label = <<[total_points |-> total_points,
                                      total_price |-> get_total_price(its),
                                      status |-> status]>>]

\* CartPanel.update_totals(max_points) with the items its in the cart
update_totals(g, limit, its) ==
    LET total_points == get_total_points(its)
        remaining_points == limit - total_points
        status == IF remaining_points >= 0
                  THEN <<"Resterend", remaining_points>>
                  ELSE <<"Overschrijding", -remaining_points>>
    IN  [g EXCEPT !.max_points = limit,
                  !.totals_label = <<[total_points |-> total_points,
                                      total_price |-> get_total_price(its),
                                      status |-> status]>>]

\* CartPanel.update_display() with the items its in the cart
update_display(g, its) ==
    update_totals(load_images(g, [i \in 1..Len(its) |-> its[i].appliance], <<80, 55>>),
                  g.max_points, its)

RECURSIVE _on_filter_change(_, _, _, _)
\* StringVar.set(value) of a traced variable
set_var(g, name, value, bl, apps, its) ==
    _on_filter_change([g EXCEPT ![name] = value], bl, apps, its)

\* update_brands that selects the first brand whatever the selection was
update_brands_always_selects(g, brands, bl, apps, its) ==
    LET g1 == [g EXCEPT !.brand_values = brands]
    IN  IF brands # <<>>
        THEN set_var(g1, "brand_var", brands[1], bl, apps, its)
        ELSE g1

\* FilterPanel.update_brands(brands)
update_brands(g, brands, bl, apps, its) ==
    LET g1 == [g EXCEPT !.brand_values = brands]
    IN  IF g.brand_var \notin elements(brands) /\ brands # <<>>
        THEN set_var(g1, "brand_var", brands[1], bl, apps, its)
        ELSE g1

\* ApplianceManagerApp._on_filter_change(); a call nested deeper than the
\* interpreter allows is a RecursionError, which the handler catches
_on_filter_change(g, bl, apps, its) ==
    IF g.depth >= MaxNesting THEN [g EXCEPT !.nesting = MaxNesting + 1]
    ELSE
    LET g0 == [g EXCEPT !.depth = @ + 1,
                        !.nesting = IF @ > g.depth THEN @ ELSE g.depth + 1]
        selected_block == g0.block_var
        category == g0.category_var
        search_term == strip(g0.search_var)
        limit == IF has_block(bl, selected_block)
                 THEN <<block_max_points(bl, selected_block)>> ELSE <<>>
        available_brands == get_brands_for_category(apps, category, limit)
        g1 == update_brands(g0, available_brands, bl, apps, its)
        brand == g1.brand_var
        args == [category |-> category, brand |-> brand, max_points |-> limit,
                 search_term |-> IF truthy(search_term) THEN search_term ELSE None]
        filtered_appliances ==
            filter(apps, args.category, args.brand, args.max_points, args.search_term)
        g2 == update_appliances([g1 EXCEPT !.filter_args = args,
                                           !.result = <<filtered_appliances>>,
                                           !.filter_exit = "returned"],
                                filtered_appliances)
        g3 == IF limit # <<>> THEN update_totals(g2, limit[1], its) ELSE g2
    IN  [g3 EXCEPT !.depth = @ - 1]

\* FilterPanel.update_blocks(blocks)
update_blocks(g, bl, apps, its) ==
    LET block_names == [i \in 1..Len(bl) |-> bl[i].name]
        g1 == [g EXCEPT !.block_values = block_names]
    IN  IF block_names # <<>>
        THEN set_var(g1, "block_var", block_names[1], bl, apps, its)
        ELSE g1

\* FilterPanel.update_categories(categories)
update_categories(g, categories, bl, apps, its) ==
    LET g1 == [g EXCEPT !.category_values = categories]
    IN  IF categories # <<>>
        THEN set_var(g1, "category_var", categories[1], bl, apps, its)
        ELSE g1

\* ApplianceManagerApp._initialize_data()
_initialize_data(g, bl, apps, its) ==
    LET g1 == update_blocks(g, bl, apps, its)
        g2 == update_categories(g1, CATEGORIES, bl, apps, its)
        stocked == {i \in 1..Len(CATEGORIES) :
                        \E k \in 1..Len(apps) : apps[k].category = CATEGORIES[i]}
        g3 == IF stocked # {}
              THEN set_var(g2, "category_var",
                           CATEGORIES[CHOOSE i \in stocked : \A j \in stocked : i <= j],
                           bl, apps, its)
              ELSE g2
    IN  _on_filter_change(g3, bl, apps, its)

\* ApplianceManagerApp._on_add_to_cart(appliance), after cart.add_item has
\* updated the items to its and called the observer update_display
_on_add_to_cart(g, bl, its) ==
    LET g1 == update_display(g, its)
    IN  IF has_block(bl, g1.block_var)
        THEN update_totals(g1, block_max_points(bl, g1.block_var), its)
        ELSE g1

\* the panels, the image cache and the filter as an event leaves them
show(g) ==
    /\ block_var' = g.block_var
    /\ category_var' = g.category_var
    /\ brand_var' = g.brand_var
    /\ search_var' = g.search_var
    /\ block_values' = g.block_values
    /\ category_values' = g.category_values
    /\ brand_values' = g.brand_values
    /\ appliance_rows' = g.appliance_rows
    /\ panel_max_points' = g.max_points
    /\ totals_label' = g.totals_label
    /\ cache' = g.cache
    /\ load_call' = g.load_call
    /\ load_result' = g.load_result
    /\ load_exit' = g.load_exit
    /\ filter_args' = g.filter_args
    /\ result' = g.result
    /\ filter_exit' = g.filter_exit
    /\ nesting' = g.nesting

(***************************************************************************)
(* ApplianceManagerFrame.py: the names the module defines                  *)
(***************************************************************************)
\* the classes, functions and constants the module body binds
ModuleNames ==
    {"BASE_DIR", "LOGO_IMAGE_PATH", "CATEGORIES", "AppConfig", "ElectricBlock",
     "Appliance", "CartItem", "DataRepository", "JSONDataRepository", "ImageCache",
     "ApplianceFilter", "ShoppingCart", "FilterPanel", "ApplianceRow",
     "ResultsPanel", "CartPanel", "ApplianceManagerApp", "LoadingFrame",
     "ApplianceManagerWindow", "main"}

\* `from ApplianceManagerFrame import names`: a name the module does not bind
\* is an ImportError
import_from(names) == IF names \subseteq ModuleNames THEN "imported" ELSE "ImportError"

\* the import statement of the test module
TestImports == {"Appliance", "ShoppingCart", "ApplianceFilter", "sort_appliances"}

\* a call sort_appliances(apps, key, descending) of the test module: the module
\* is imported first; the name has no definition in ApplianceManagerFrame.py,
\* so no call reaches a function body and nothing is returned
call_sort_appliances(apps, key, descending) ==
    /\ sort_call' = <<apps, key, descending>>
    /\ sort_exit' = import_from(TestImports)
    /\ sort_result' = Unset

(***************************************************************************)
(* Inputs                                                                  *)
(***************************************************************************)
MaxLines == 3
MaxRuleLines == 2
MaxRerunLines == 2
MaxPolicyLines == 2
MaxStepLines == 2
MaxQuantity == 2
MaxObservers == 2
MaxPrice == 900
MaxPoints == 600
MaxSorted == 2
MaxCacheSize == 2
MaxCartLines == 2

TotalPriceLine == TotalPriceLabel \o " 1234"

\* raw lines that exercise merging, noise filtering and truncation
NormPool ==
    {"Kast A", "bovenzijde", "Kast B", "", "Netto afmetingen : 600x590x560",
     "nis Line", "zie Line n 4", TotalPriceLine, "600 mm", "- greep"}

\* order lines that exercise the counting rules
RulePool ==
    {"ONDERKAST 600", "Onderkast WAND-HOEKKAST", "Kleinere dieptes bij Onderkast",
     "Kookplaat kookplaatkast", "Deurfront in", "Doorlopend deurfront voor"}

RerunPool == {"Kast A", "ONDERKAST 600", TotalPriceLine}

\* order lines that exercise the rules whose total is transformed
PolicyPool ==
    {"Plint SB15", "SB15 SB7 SB20", "Wanddampkap Oven magnetron",
     "Spoelkast kraan LineN", "GD1 Ombouwkast koelautomaat", "Kookplaat kookplaatkast"}

\* order lines that exercise the whole-word match of count_Achterwand
AchterwandPool ==
    {"Achterwandbekleding", "ACHTERWANDBEKLEDING 3mm", "Achterwandbekledingen",
     "Keuken_achterwandbekleding", "(achterwandbekleding)",
     "Achterwandbekledingen en achterwandbekleding"}

SeqsUpTo(pool, n) == UNION {[1..k -> pool] : k \in 1..n}

\* text.split('\n') is never the empty list: the empty text gives <<"">>
Texts == SeqsUpTo(NormPool, MaxLines)

\* orders: some order lines, closed by the total-price line or cut short of it
OrderTexts ==
    UNION {{t, t \o <<TotalPriceLine>>} : t \in SeqsUpTo(RulePool, MaxRuleLines)}

RerunTexts == SeqsUpTo(RerunPool, MaxRerunLines)

\* order lines with words that several rules look for
StepPool == {"Kookplaat kookplaatkast", "Spoelkast kraan LineN", "Deurfront in"}

StepTexts == {t \o <<TotalPriceLine>> : t \in SeqsUpTo(StepPool, MaxStepLines)}

\* complete orders over the lines of one of the two pools
PolicyTexts ==
    {t \o <<TotalPriceLine>> :
        t \in SeqsUpTo(PolicyPool, MaxPolicyLines) \cup SeqsUpTo(AchterwandPool, MaxPolicyLines)}

\* what the header extraction may return: nothing, some of the six fields,
\* the six fields, or more
HeaderOutputs ==
    {<<>>, <<"x", "y", "z">>, <<"a", "b", "c", "d", "e", "f">>,
     <<"a", "b", "c", "d", "e", "f", "g">>}

\* Appliance(code, brand, category, ..., points, price, option)
Appliance(code, brand, category, points, option) ==
    [code |-> code, brand |-> brand, category |-> category, points |-> points,
     option |-> option]

\* the appliances offered to the cart: two of them carry the same code
CartAppliances ==
    {Appliance("TEST001", "TestBrand", "oven", 0, None),
     Appliance("TEST001", "TestBrand", "oven", 5, None),
     Appliance("KOOK001", "Bosch", "kookplaat", 3, None),
     Appliance("VAAS001", "Miele", "vaatwasser", 7, None)}

\* the callbacks registered with the cart: one returns, one raises
Callbacks == {"returns", "raises"}

\* the source lists given to the filter
Catalogues ==
    {<<Appliance("OVEN001", "Siemens", "oven", 120, "pyrolyse"),
       Appliance("OVEN002", "Bosch", "oven", 0, "hydrolyse"),
       Appliance("KOOK001", "Bosch", "kookplaat", 80, None),
       Appliance("VAAS001", "Miele", "vaatwasser", 200, None)>>,
     <<Appliance("VAAS001", "Miele", "vaatwasser", 200, None),
       Appliance("BOS-7", "Neff", "oven", 80, None),
       Appliance("OVEN002", "Bosch", "oven", 0, "hydrolyse"),
       Appliance("OVEN002", "Bosch", "oven", 0, "hydrolyse")>>,
     <<>>}

\* the criteria offered to filter
Categories == {None, "", "-", "oven", "Oven"}
Brands == {None, "", "-", "Bosch"}
PointLimits == {<<>>, <<0>>, <<80>>}
SearchTerms == {None, "", "-", "bos"}

\* the appliance of test_price_logic, of any category and number of points
Priced(category, points) == Appliance("OVEN", "Brand", category, points, None)

\* the categories priced: the hood category in three spellings, and others
PriceCategories ==
    {"afzuigkappen", "Afzuigkappen", "AFZUIGKAPPEN", "afzuigkap", "bakovens", ""}

\* the appliances test_sort_appliances_function sorts
SortAppliances ==
    {Appliance("A1", "B", "bakovens", 100, "b"),
     Appliance("A2", "A", "koelkast", 200, "a"),
     Appliance("A3", "C", "bakovens", 150, None)}

\* the column labels the modelled fields of an appliance answer to
SortKeys == {"Punten", "Merk", "Code", "Categorie", "Suboptie"}

\* the image files asked for: none, one of the catalogue, one named as the
\* error key is
Filenames == {None, "a.jpg", "ERROR"}

\* the sizes asked for: the default, and the cart's thumbnail
Sizes == {<<>>, <<80, 55>>}

\* what load_blocks may return: no block, or two blocks
BlockSets ==
    {<<>>,
     <<[name |-> "Blok A", max_points |-> 100], [name |-> "Blok B", max_points |-> 250]>>}

\* what load_appliances may return: no appliance, or two of one category of
\* the panel, one of them above the limit of the first block
AppCatalogues ==
    {<<>>,
     <<Appliance("KOOK001", "Bosch", "kookplaat", 80, None),
       Appliance("KOOK002", "Siemens", "kookplaat", 120, None)>>}

\* what is typed into the search entry
SearchInputs == {"", " bos "}

\* the sub-options the tests ask for
Options == {None, "pyrolyse", "hydrolyse"}

\* the keyword calls of filter: by category, by brand, by both, and with an
\* option keyword
KeywordCalls ==
    {[category |-> c] : c \in Categories}
    \cup {[brand |-> b] : b \in Brands}
    \cup {[category |-> c, brand |-> b] : c \in Categories, b \in Brands}
    \cup {[category |-> c, option |-> o] : c \in Categories, o \in Options}

(***************************************************************************)
(* Specifications                                                          *)
(***************************************************************************)
Init ==
    /\ text = Unset
    /\ new_lines = Unset
    /\ filtered_lines = Unset
    /\ total_price_index = Unset
    /\ data_exit = "none"
    /\ Data_xlsx = Absent
    /\ word_counts = Unset
    /\ plinten_count = Unset
    /\ counts = Unset
    /\ ws = Template
    /\ gen_exit = "none"
    /\ total_count = Unset
    /\ items = <<>>
    /\ observers = <<>>
    /\ notified = <<>>
    /\ cart_call = Unset
    /\ cart_exit = "none"
    /\ appliances = Unset
    /\ filter_args = Unset
    /\ result = Unset
    /\ filter_exit = "none"
    /\ price_call = Unset
    /\ price_result = Unset
    /\ sort_call = Unset
    /\ sort_result = Unset
    /\ sort_exit = "none"
    /\ cache_size = Unset
    /\ cache = <<>>
    /\ load_call = Unset
    /\ load_result = Unset
    /\ load_exit = "none"
    /\ blocks = Unset
    /\ block_var = ""
    /\ category_var = ""
    /\ brand_var = ""
    /\ search_var = ""
    /\ block_values = <<>>
    /\ category_values = <<>>
    /\ brand_values = <<>>
    /\ appliance_rows = <<>>
    /\ panel_max_points = 0
    /\ totals_label = <<>>
    /\ nesting = 0

\* Data.py, once, in a fresh directory, on any text.
NormalizeText == data_exit = "none" /\ \E t \in Texts : RunData(t)

NextData == NormalizeText

SpecData == Init /\ [][NextData]_vars

\* One order in a fresh directory: Data.py once, Datahandler once.
Normalize == data_exit = "none" /\ \E t \in OrderTexts : RunData(t)

Generate == gen_exit = "none" /\ \E h \in HeaderOutputs : generate_opmetingsaanvraag(h)

Next == Normalize \/ Generate

Spec == Init /\ [][Next]_vars

\* One complete order in a fresh directory, the header extraction returning
\* its six fields.
NormalizePolicy == data_exit = "none" /\ \E t \in PolicyTexts : RunData(t)

GeneratePolicy ==
    gen_exit = "none" /\ generate_opmetingsaanvraag(<<"a", "b", "c", "d", "e", "f">>)

NextPolicy == NormalizePolicy \/ GeneratePolicy

SpecPolicy == Init /\ [][NextPolicy]_vars

\* One order in a fresh directory, the rules evaluated one call at a time:
\* first by the module body of Elementen, then by _collect_counts.
NormalizeSteps == data_exit = "none" /\ \E t \in StepTexts : RunData(t)

ImportRule ==
    /\ gen_exit = "none"
    /\ DOMAIN total_count # ElementenRules
    /\ import_Elementen_step

CollectRule ==
    /\ gen_exit = "none"
    /\ DOMAIN total_count = ElementenRules
    /\ DOMAIN counts # DOMAIN CountCell
    /\ _collect_counts_step

SaveSheet ==
    /\ gen_exit = "none"
    /\ DOMAIN counts = DOMAIN CountCell
    /\ \E h \in HeaderOutputs : save_sheet(h)

NextSteps == NormalizeSteps \/ ImportRule \/ CollectRule \/ SaveSheet

SpecSteps == Init /\ [][NextSteps]_vars

\* A cart in use: appliances come and go, observers register.
AddItem ==
    \E a \in CartAppliances :
        /\ \A i \in items_with_code(items, a) : items[i].quantity < MaxQuantity
        /\ add_item(a)
        /\ UNCHANGED besidesCart

RemoveItem ==
    \E a \in CartAppliances : remove_item(a) /\ UNCHANGED besidesCart

Clear == clear /\ UNCHANGED besidesCart

AddObserver ==
    /\ Len(observers) < MaxObservers
    /\ \E cb \in Callbacks : add_observer(cb)
    /\ UNCHANGED besidesCart

NextCart == AddItem \/ RemoveItem \/ Clear \/ AddObserver

SpecCart == Init /\ [][NextCart]_vars

\* A filter object built on a source list and called with criteria.
Construct ==
    /\ appliances = Unset
    /\ \E apps \in Catalogues : ApplianceFilter_init(apps)
    /\ UNCHANGED besidesFilter

Filter ==
    /\ appliances # Unset
    /\ \E c \in Categories, b \in Brands, m \in PointLimits, t \in SearchTerms :
          call_filter(c, b, m, t)
    /\ UNCHANGED besidesFilter

NextFilter == Construct \/ Filter

SpecFilter == Init /\ [][NextFilter]_vars

\* The filter called with keyword arguments, as the tests call it.
FilterKeywords ==
    /\ appliances # Unset
    /\ \E kwargs \in KeywordCalls : call_filter_kwargs(kwargs)
    /\ UNCHANGED besidesFilter

NextKeywords == Construct \/ FilterKeywords

SpecKeywords == Init /\ [][NextKeywords]_vars

\* One price conversion: a catalog price to points and back, or the internal
\* price of an appliance.
RoundTrip ==
    /\ price_call = Unset
    /\ \E price \in 0..MaxPrice :
          LET p == points_from_catalog_price(price)
          IN  /\ price_call' = <<"points_from_catalog_price", price>>
              /\ price_result' = <<p, catalog_price(Priced("bakovens", p))>>
    /\ UNCHANGED besidesPrice

InternalPrice ==
    /\ price_call = Unset
    /\ \E c \in PriceCategories, points \in 0..MaxPoints :
          /\ price_call' = <<"internal_price", Priced(c, points)>>
          /\ price_result' = <<internal_price(Priced(c, points))>>
    /\ UNCHANGED besidesPrice

NextPrice == RoundTrip \/ InternalPrice

SpecPrice == Init /\ [][NextPrice]_vars

\* The test module sorting a list of appliances.
SortCall ==
    /\ \E apps \in SeqsUpTo(SortAppliances, MaxSorted), key \in SortKeys,
          descending \in BOOLEAN : call_sort_appliances(apps, key, descending)
    /\ UNCHANGED besidesSort

NextSort == SortCall

SpecSort == Init /\ [][NextSort]_vars

\* An image cache of some size, asked for images.
ConstructCache ==
    /\ cache_size = Unset
    /\ \E n \in 0..MaxCacheSize : ImageCache_init(n)
    /\ UNCHANGED besidesCache

LoadImage ==
    /\ cache_size # Unset
    /\ \E filename \in Filenames, size \in Sizes, present \in BOOLEAN,
          raises \in {"no", "load", "every"} : load_image(filename, size, present, raises)
    /\ UNCHANGED besidesCache

NextCache == ConstructCache \/ LoadImage

SpecCache == Init /\ [][NextCache]_vars

\* The application: it starts, and then the user selects, types, adds to the
\* cart and removes from it.
StartApp ==
    /\ blocks = Unset
    /\ \E bl \in BlockSets, apps \in AppCatalogues :
          /\ blocks' = <<bl>>
          /\ appliances' = <<apps>>
          /\ cache_size' = <<AppConfig_cache_size>>
          /\ add_observer("update_display")
          /\ show(_initialize_data(panels, bl, apps, items))
    /\ UNCHANGED besidesApp

\* a write to a variable of the filter panel
Write(name, value) ==
    /\ blocks # Unset
    /\ show(set_var(panels, name, value, blocks[1], appliances[1], items))
    /\ UNCHANGED <<cartVars, blocks, appliances, cache_size, besidesApp>>

SelectBlock == \E value \in elements(block_values) : Write("block_var", value)

SelectCategory == \E value \in elements(category_values) : Write("category_var", value)

SelectBrand == \E value \in elements(brand_values) : Write("brand_var", value)

TypeSearch == \E value \in SearchInputs : Write("search_var", value)

AddToCart ==
    /\ blocks # Unset
    /\ \E a \in elements(appliance_rows) :
          /\ \A i \in items_with_code(items, a) : items[i].quantity < MaxQuantity
          /\ items_with_code(items, a) = {} => Len(items) < MaxCartLines
          /\ add_item(a)
          /\ show(_on_add_to_cart(panels, blocks[1], items'))
    /\ UNCHANGED <<blocks, appliances, cache_size, besidesApp>>

RemoveFromCart ==
    /\ blocks # Unset
    /\ \E i \in 1..Len(items) :
          /\ remove_item(items[i].appliance)
          /\ show(update_display(panels, items'))
    /\ UNCHANGED <<blocks, appliances, cache_size, besidesApp>>

ClearCart ==
    /\ blocks # Unset
    /\ clear
    /\ show(update_display(panels, items'))
    /\ UNCHANGED <<blocks, appliances, cache_size, besidesApp>>

NextApp ==
    \/ StartApp
    \/ SelectBlock
    \/ SelectCategory
    \/ SelectBrand
    \/ TypeSearch
    \/ AddToCart
    \/ RemoveFromCart
    \/ ClearCart

SpecApp == Init /\ [][NextApp]_vars

\* Order after order in the same directory.
NormalizeAgain == \E t \in RerunTexts : RunData(t)

GenerateAgain == \E h \in HeaderOutputs : generate_opmetingsaanvraag(h)

NextRerun == NormalizeAgain \/ GenerateAgain

SpecRerun == Init /\ [][NextRerun]_vars

(***************************************************************************)
(* Properties of Data.py                                                   *)
(***************************************************************************)
\* the k-th smallest element of a set of integers
NthOf(S, k) == CHOOSE i \in S : Cardinality({j \in S : j <= i}) = k

\* position p of line starts an occurrence of sub
OccursAt(sub, line, p) ==
    /\ p >= 1
    /\ p + Len(sub) - 1 <= Len(line)
    /\ \A j \in 1..Len(sub) : CharAt(line, p + j - 1) = CharAt(sub, j)

Occurs(sub, line) == \E p \in 1..Len(line) : OccursAt(sub, line, p)

IsNoise(line) == Occurs("Netto afmetingen :", line) \/ Occurs("Line n", line)

HasLabel(line) == Occurs("Totale prijs van uw ingerichte keuken incl. BTW:", line)

RECURSIVE JoinWithSpace(_, _, _)
\* t[a], ..., t[b] joined by single spaces
JoinWithSpace(t, a, b) ==
    IF a = b THEN t[a] ELSE JoinWithSpace(t, a, b - 1) \o " " \o t[b]

\* raw line i continues the logical line before it
C1_Continues(i) ==
    /\ i >= 2
    /\ text[i] # ""
    /\ \E n \in 1..Len(LowerChars) : OccursAt(CharAt(LowerChars, n), text[i], 1)

\* the raw lines that start a logical line
C1_Starts == {i \in 1..Len(text) : ~C1_Continues(i)}

\* the last raw line of the k-th logical line
C1_End(k) ==
    IF k = Cardinality(C1_Starts) THEN Len(text) ELSE NthOf(C1_Starts, k + 1) - 1

\* C1: the first raw line starts the first logical line; a later raw line is
\* appended to the current logical line, after exactly one space, if and only if
\* it is non-empty and starts with a lowercase letter; every other later line
\* starts a new logical line.
C1_LineMerging ==
    data_exit # "none" =>
        /\ 1 \in C1_Starts
        /\ Len(new_lines) = Cardinality(C1_Starts)
        /\ \A k \in 1..Cardinality(C1_Starts) :
              new_lines[k] = JoinWithSpace(text, NthOf(C1_Starts, k), C1_End(k))

\* the example of the claim
C1_Witness ==
    /\ data_exit # "none"
    /\ text = <<"Kast A", "bovenzijde", "Kast B">>
    /\ new_lines = <<"Kast A bovenzijde", "Kast B">>

\* C2: when normalization succeeds, no line of the output contains
\* "Netto afmetingen :" or "Line n", also when the text came in with a merged
\* continuation line.
C2_NoNoiseInOutput ==
    data_exit = "saved" =>
        \A i \in 1..Len(Data_xlsx[1]) : ~IsNoise(Data_xlsx[1][i])

\* a successful run whose text carries noise in a continuation line, noise in a
\* line of its own, or noise that only the merge put together
C2_Witness ==
    /\ data_exit = "saved"
    /\ \E i \in 2..Len(text) : C1_Continues(i) /\ IsNoise(text[i])
    /\ \E k \in 1..Len(new_lines) : IsNoise(new_lines[k])

\* the logical lines that are no noise
C3_Kept == {k \in 1..Len(new_lines) : ~IsNoise(new_lines[k])}

\* C3: when normalization succeeds, the output is the noise-free logical lines,
\* in their order, up to and including the first one that carries the
\* total-price label: the last output line carries it, no earlier one does,
\* and nothing after it is written.
C3_TruncatedAtFirstLabel ==
    data_exit = "saved" =>
        LET out == Data_xlsx[1]
            n == Len(out)
        IN  /\ n >= 1
            /\ n <= Cardinality(C3_Kept)
            /\ \A k \in 1..n : out[k] = new_lines[NthOf(C3_Kept, k)]
            /\ HasLabel(out[n])
            /\ \A k \in 1..(n - 1) : ~HasLabel(out[k])

\* a successful run with a line before the total-price line and a second
\* total-price line after it
C3_Witness ==
    /\ data_exit = "saved"
    /\ Len(Data_xlsx[1]) >= 2
    /\ \E k \in (Len(Data_xlsx[1]) + 1)..Len(filtered_lines) : HasLabel(filtered_lines[k])

\* C4: normalizing the empty text, or a text none of whose remaining logical
\* lines carries the total-price label, ends in the error (the StopIteration
\* of next()), fixes no truncation point and writes no Data.xlsx.
C4_MissingLabelIsFatal ==
    (/\ data_exit # "none"
     /\ \/ text = <<"">>
        \/ \A k \in C3_Kept : ~HasLabel(new_lines[k]))
    => /\ data_exit = "StopIteration"
       /\ total_price_index = Unset
       /\ Data_xlsx = Absent

\* a failed run on a text that leaves several logical lines, none with the label
C4_Witness ==
    /\ data_exit = "StopIteration"
    /\ Len(filtered_lines) >= 2
    /\ Data_xlsx = Absent

(***************************************************************************)
(* Properties of the pipeline and of the counting rules                    *)
(***************************************************************************)
\* C5: once normalization of a document has failed, generating produces no
\* counts: it ends in an error and writes nothing.
C5_FailedRunBlocksGeneration ==
    [][(data_exit = "StopIteration" /\ GenerateAgain)
          => (gen_exit' # "saved" /\ counts' = counts /\ ws' = ws)]_vars

\* C6: the mapping _collect_counts produces has exactly one entry, a natural
\* number, for every count rule Elementen defines.
C6_EveryRuleCollected ==
    gen_exit = "saved" =>
        /\ \A rule \in ElementenRules :
              Cardinality({c \in DOMAIN counts : CountCell[c] = rule}) = 1
        /\ \A c \in DOMAIN counts : counts[c] \in Nat

\* the rows of Data.xlsx
Rows == Data_xlsx[1]

\* the two forms of every letter
LetterForms ==
    {<<CharAt(UpperChars, n), CharAt(LowerChars, n)>> : n \in 1..Len(UpperChars)}

\* a and b are one character, or the two forms of one letter
SameLetter(a, b) == a = b \/ <<a, b>> \in LetterForms \/ <<b, a>> \in LetterForms

\* position p of line starts an occurrence of sub, letter case ignored
OccursAtCI(sub, line, p) ==
    /\ p >= 1
    /\ p + Len(sub) - 1 <= Len(line)
    /\ \A j \in 1..Len(sub) : SameLetter(CharAt(line, p + j - 1), CharAt(sub, j))

OccursCI(sub, line) == \E p \in 1..Len(line) : OccursAtCI(sub, line, p)

\* the rules that match by substring
SubstringRules == CollectedRules \ {"Achterwand"}

\* the line is excluded from the rule's matching pass
Excluded(rule, line) ==
    /\ rule = "onderkasten_kolomkasten"
    /\ \/ OccursCI("wand-hoekkast", line)
       \/ OccursCI("kleinere dieptes bij onderkast", line)

\* C7: in a substring rule, a line that is not excluded matches a target phrase
\* exactly when the phrase occurs in the line, letter case ignored on both sides.
C7_SubstringMatchIgnoresCase ==
    gen_exit = "saved" =>
        \A rule \in SubstringRules : \A i \in 1..Len(Rows) :
            \A k \in 1..Len(target_words(rule)) :
                (row_increments(rule, Rows[i])[k] > 0)
                    <=> (~Excluded(rule, Rows[i]) /\ OccursCI(target_words(rule)[k], Rows[i]))

\* the example of the claim
C7_Witness ==
    /\ gen_exit = "saved"
    /\ Rows = <<"ONDERKAST 600", TotalPriceLine>>
    /\ word_counts["onderkasten_kolomkasten"][1] = 1
    /\ counts["E15"] = 1

\* C8: in rule onderkasten_kolomkasten the lines that contain "wand-hoekkast" or
\* "kleinere dieptes bij onderkast", in any letter case, add nothing: the
\* tallies are those of the sheet without these lines.
C8_ExcludedLinesAddNothing ==
    gen_exit = "saved" =>
        LET NotExcluded(line) == ~Excluded("onderkasten_kolomkasten", line)
            rest == scan_workbook("onderkasten_kolomkasten", SelectSeq(Rows, NotExcluded))
        IN  /\ word_counts["onderkasten_kolomkasten"] = rest
            /\ counts["E15"] = sum_values(rest)

\* both exclusions, on lines that name target phrases, beside a counted line
C8_Witness ==
    /\ gen_exit = "saved"
    /\ \E i \in 1..Len(Rows) :
          /\ OccursCI("wand-hoekkast", Rows[i])
          /\ OccursCI("Onderkast", Rows[i]) /\ OccursCI("Hoekkast", Rows[i])
    /\ \E i \in 1..Len(Rows) :
          /\ OccursCI("kleinere dieptes bij onderkast", Rows[i])
          /\ OccursCI("Onderkast", Rows[i])
    /\ counts["E15"] = 0

\* the phrase matches the line in the rule's matching mode
Matched(rule, word, line) ==
    IF rule = "Achterwand" THEN re_search_word(word, line)
    ELSE ~Excluded(rule, line) /\ OccursCI(word, line)

\* the rows that match the rule's k-th phrase
HitRows(rule, k) == {i \in 1..Len(Rows) : Matched(rule, target_words(rule)[k], Rows[i])}

\* the weight of the rule's k-th phrase
Weight(rule, k) == IF rule = "Deur_vaatwasser" /\ target_words(rule)[k] = "Deurfront in" THEN 2 ELSE 1

RECURSIVE SumTo(_, _)
\* f[1] + ... + f[n]
SumTo(f, n) == IF n = 0 THEN 0 ELSE SumTo(f, n - 1) + f[n]

\* the rules whose result is the raw total
IdentityRules ==
    {"onderkasten_kolomkasten", "Hangkasten", "Kroonlijsten", "Lichtlijsten",
     "Werkbladen", "Vaatwasser", "Passtukken", "Deur_vaatwasser", "Achterwand",
     "Zij_steunwand", "Verlichting"}

\* C9: every pair of a line and a target phrase adds the phrase's weight once
\* when it matches, however often the phrase occurs in the line, so a phrase's
\* tally is its weight times the number of matching lines; the raw total is the
\* sum of the tallies (a line that matches k phrases adds k weights).
C9_EachPairCountsOnce ==
    gen_exit = "saved" =>
        /\ \A rule \in CollectedRules \ {"plinten"} :
              /\ DOMAIN word_counts[rule] = 1..Len(target_words(rule))
              /\ \A k \in 1..Len(target_words(rule)) :
                    word_counts[rule][k] = Weight(rule, k) * Cardinality(HitRows(rule, k))
        /\ plinten_count =
              SumTo([k \in 1..Len(target_words("plinten")) |->
                        Cardinality(HitRows("plinten", k))], Len(target_words("plinten")))
        /\ \A c \in DOMAIN counts :
              /\ CountCell[c] \in IdentityRules =>
                    counts[c] = SumTo(word_counts[CountCell[c]], Len(target_words(CountCell[c])))
              /\ CountCell[c] = "Kookplaat" =>
                    counts[c] = 2 * SumTo(word_counts["Kookplaat"], Len(target_words("Kookplaat")))

\* a line on which "kookplaat" occurs twice and "Kookplaatkast" once
C9_Witness ==
    /\ gen_exit = "saved"
    /\ Rows = <<"Kookplaat kookplaatkast", TotalPriceLine>>
    /\ word_counts["Kookplaat"] = <<1, 1>>
    /\ counts["E22"] = 4

\* the number of rows in which the phrase occurs, letter case ignored
RowsWith(phrase) == Cardinality({i \in 1..Len(Rows) : OccursCI(phrase, Rows[i])})

\* C10: the result of Deur_vaatwasser is twice the number of lines with
\* "Deurfront in" plus the number of lines with "Deurfront voor" plus the number
\* of lines with "Doorlopend deurfront", untransformed.
C10_DeurVaatwasserWeights ==
    gen_exit = "saved" =>
        counts["E33"] = 2 * RowsWith("Deurfront in") + RowsWith("Deurfront voor")
                            + RowsWith("Doorlopend deurfront")

\* one line with the double-weighted phrase, one with the two other phrases
C10_Witness ==
    /\ gen_exit = "saved"
    /\ Rows = <<"Deurfront in", "Doorlopend deurfront voor", TotalPriceLine>>
    /\ word_counts["Deur_vaatwasser"] = <<1, 2, 1>>
    /\ counts["E33"] = 4

(***************************************************************************)
(* Properties of the totals the rules return                               *)
(***************************************************************************)
\* the raw total of a rule: the sum of its tallies (its counter, for plinten)
RawTotal(rule) ==
    IF rule = "plinten" THEN plinten_count
    ELSE SumTo(word_counts[rule], Len(target_words(rule)))

\* the cell that receives the result of a rule
CellOf(rule) == CHOOSE c \in DOMAIN CountCell : CountCell[c] = rule

\* the result of a rule
Result(rule) == counts[CellOf(rule)]

\* q is floor(n / 2)
IsHalfFloor(q, n) == q \in Nat /\ 2 * q <= n /\ n < 2 * q + 2

\* C11: the result of plinten is floor(n / 2) for the raw tally n, except that
\* it is 1 when n > 0 and floor(n / 2) < 1: 0 -> 0, 1 -> 1, 2 -> 1, 3 -> 1,
\* 4 -> 2; it is an integer.
C11_PlintenHalvedFloorMin1 ==
    gen_exit = "saved" =>
        LET n == RawTotal("plinten")
            r == Result("plinten")
        IN  /\ n \in Nat
            /\ r \in Int
            /\ IF n > 0 /\ IsHalfFloor(0, n) THEN r = 1 ELSE IsHalfFloor(r, n)
            /\ n = 0 => r = 0
            /\ n = 1 => r = 1
            /\ n = 2 => r = 1
            /\ n = 3 => r = 1
            /\ n = 4 => r = 2

\* one line that names one plinth: the tally 1 is clamped up from floor(1/2) = 0
C11_Witness ==
    /\ gen_exit = "saved"
    /\ Rows = <<"Plint SB15", TotalPriceLine>>
    /\ plinten_count = 1
    /\ counts["E17"] = 1

\* the value a capped rule returns when anything was counted
CapOf(rule) ==
    CASE rule \in {"Dampkap", "Oven", "Microgolfoven"} -> 1
      [] rule = "Spoelbak_kraan" -> 3
      [] rule = "Andere" -> 5

CappedRules == {"Dampkap", "Oven", "Microgolfoven", "Spoelbak_kraan", "Andere"}

\* C12: the result of Dampkap, Oven and Microgolfoven is 1, that of
\* Spoelbak_kraan 3 and that of Andere 5 when the rule's raw total is at least 1,
\* and 0 otherwise; these rules return no other value.
C12_CappedPolicies ==
    gen_exit = "saved" =>
        \A rule \in CappedRules :
            /\ Result(rule) = (IF RawTotal(rule) >= 1 THEN CapOf(rule) ELSE 0)
            /\ Result(rule) \in {0, CapOf(rule)}

\* raw totals above 1 and below the cap: Dampkap 2, Spoelbak_kraan 2, Andere 1
C12_Witness ==
    /\ gen_exit = "saved"
    /\ RawTotal("Dampkap") = 2 /\ Result("Dampkap") = 1
    /\ RawTotal("Spoelbak_kraan") = 2 /\ Result("Spoelbak_kraan") = 3
    /\ RawTotal("Andere") = 1 /\ Result("Andere") = 5
    /\ RawTotal("Oven") = 1 /\ RawTotal("Microgolfoven") = 1

\* C13: the result of Kookplaat and of koelkast is exactly twice the rule's raw
\* total (4 -> 8, 0 -> 0): an even natural number.
C13_DoubledPolicies ==
    gen_exit = "saved" =>
        \A rule \in {"Kookplaat", "koelkast"} :
            /\ Result(rule) = RawTotal(rule) + RawTotal(rule)
            /\ Result(rule) \in Nat
            /\ Result(rule) % 2 = 0
            /\ RawTotal(rule) = 4 => Result(rule) = 8
            /\ RawTotal(rule) = 0 => Result(rule) = 0

\* the example of the claim: two lines that each match both phrases of Kookplaat
C13_Witness ==
    /\ gen_exit = "saved"
    /\ RawTotal("Kookplaat") = 4 /\ Result("Kookplaat") = 8
    /\ RawTotal("koelkast") = 0 /\ Result("koelkast") = 0

\* a character of a word: a letter, a digit or the underscore
WordChars == "ABCDEFGHIJKLMNOPQRSTUVWXYZabcdefghijklmnopqrstuvwxyz0123456789_"

IsWordChar(c) == \E n \in 1..Len(WordChars) : CharAt(WordChars, n) = c

\* the phrase, which starts and ends with a letter, occurs in the line at p as
\* a whole word: no word character right before it or right after it
WholeWordAt(phrase, line, p) ==
    /\ OccursAtCI(phrase, line, p)
    /\ p = 1 \/ ~IsWordChar(CharAt(line, p - 1))
    /\ p + Len(phrase) - 1 = Len(line) \/ ~IsWordChar(CharAt(line, p + Len(phrase)))

WholeWord(phrase, line) == \E p \in 1..Len(line) : WholeWordAt(phrase, line, p)

\* C14: in rule Achterwand a line adds 1 to the tally exactly when it contains
\* "Achterwandbekleding", in any letter case, delimited by word boundaries on
\* both sides; a line in which the phrase occurs only inside a longer token adds 0.
C14_AchterwandWholeWord ==
    gen_exit = "saved" =>
        /\ \A i \in 1..Len(Rows) :
              row_increments("Achterwand", Rows[i]) =
                  <<IF WholeWord("Achterwandbekleding", Rows[i]) THEN 1 ELSE 0>>
        /\ word_counts["Achterwand"] =
              <<Cardinality({i \in 1..Len(Rows) : WholeWord("Achterwandbekleding", Rows[i])})>>
        /\ counts["E34"] = word_counts["Achterwand"][1]

\* an upper-case whole word counted beside the longer token, which is not
C14_Witness ==
    /\ gen_exit = "saved"
    /\ Rows = <<"Achterwandbekledingen", "ACHTERWANDBEKLEDING 3mm", TotalPriceLine>>
    /\ counts["E34"] = 1

(***************************************************************************)
(* Properties of the evaluation of the rules                               *)
(***************************************************************************)
\* the tallies of a rule on a sheet of one line
PerLine(rule, line) == scan_workbook(rule, <<line>>)

\* the pointwise sum of two tallies
PlusTallies(a, b) == [k \in DOMAIN a |-> a[k] + b[k]]

RECURSIVE SumPerLine(_, _, _)
\* PerLine(rule, rows[1]) + ... + PerLine(rule, rows[n])
SumPerLine(rule, rows, n) ==
    IF n = 0 THEN [k \in 1..Len(target_words(rule)) |-> 0]
    ELSE PlusTallies(SumPerLine(rule, rows, n - 1), PerLine(rule, rows[n]))

\* rows with the lines j and j + 1 exchanged
Swapped(rows, j) ==
    [i \in 1..Len(rows) |->
        IF i = j THEN rows[j + 1] ELSE IF i = j + 1 THEN rows[j] ELSE rows[i]]

\* the tallies the rule ended with, as far as the state shows them
TalliesAre(rule, t) ==
    IF rule = "plinten" THEN plinten_count = SumTo(t, Len(t))
    ELSE word_counts[rule] = t

\* C15: every line is evaluated on its own, once per rule: the tallies of a rule
\* are the sum over the lines of what the line alone adds, they do not change
\* when two neighbouring lines are exchanged (hence under any reordering), and
\* the tallies of a sequence cut in two are the sum of the tallies of the parts.
C15_LinesCountIndependently ==
    gen_exit = "saved" =>
        \A rule \in CollectedRules :
            /\ TalliesAre(rule, SumPerLine(rule, Rows, Len(Rows)))
            /\ \A j \in 1..(Len(Rows) - 1) :
                  TalliesAre(rule, scan_workbook(rule, Swapped(Rows, j)))
            /\ \A j \in 0..Len(Rows) :
                  TalliesAre(rule, PlusTallies(scan_workbook(rule, SubSeq(Rows, 1, j)),
                                               scan_workbook(rule, SubSeq(Rows, j + 1, Len(Rows)))))

\* a line that adds to three categories, followed by a line of a fourth
C15_Witness ==
    /\ gen_exit = "saved"
    /\ Rows = <<"Spoelkast kraan LineN", "Plint SB15", TotalPriceLine>>
    /\ word_counts["onderkasten_kolomkasten"][5] = 1
    /\ word_counts["Spoelbak_kraan"] = <<1, 1, 0>>
    /\ word_counts["Andere"] = <<1>>
    /\ plinten_count = 1

HeaderCells == <<"C6", "C7", "C9", "C10", "D12", "G6">>

\* the cell of every category
CategoryCells ==
    {<<"E15", "onderkasten_kolomkasten">>, <<"E16", "Hangkasten">>, <<"E17", "plinten">>,
     <<"E18", "Kroonlijsten">>, <<"E19", "Lichtlijsten">>, <<"E20", "Werkbladen">>,
     <<"E21", "Spoelbak_kraan">>, <<"E22", "Kookplaat">>, <<"E23", "Dampkap">>,
     <<"E24", "Oven">>, <<"E25", "Microgolfoven">>, <<"E26", "koelkast">>,
     <<"E27", "Vaatwasser">>, <<"E30", "Passtukken">>, <<"E33", "Deur_vaatwasser">>,
     <<"E34", "Achterwand">>, <<"E35", "Zij_steunwand">>, <<"E37", "Andere">>,
     <<"E38", "Verlichting">>}

\* the sheet after is the sheet before with the header strings h and the
\* counts cnt written to their cells
SheetWritten(before, after, h, cnt) ==
    /\ DOMAIN after = DOMAIN before
    /\ \A i \in 1..Len(HeaderCells) :
          after[HeaderCells[i]] = IF i <= Len(h) THEN h[i] ELSE before[HeaderCells[i]]
    /\ \A p \in CategoryCells : after[p[1]] = cnt[p[1]]
    /\ \A c \in DOMAIN before :
          (/\ \A i \in 1..Len(HeaderCells) : c # HeaderCells[i]
           /\ \A p \in CategoryCells : c # p[1])
          => after[c] = before[c]

\* a step of generate_opmetingsaanvraag: Data.py has not run in it
C17_Generated ==
    /\ text' = text
    /\ Data_xlsx' = Data_xlsx

\* C17: generate_opmetingsaanvraag writes the i-th header string (i <= 6) into
\* the i-th of the cells C6, C7, C9, C10, D12, G6 and the count of every category
\* into its cell of column E; it ignores the strings after the sixth, leaves a
\* header cell without a string as it was, and changes no other cell.
C17_SheetCellsWritten ==
    [][(C17_Generated /\ gen_exit' = "saved") =>
          /\ \E h \in HeaderOutputs : SheetWritten(ws, ws', h, counts')
          /\ \A p \in CategoryCells :
                LET raw == IF p[2] = "plinten" THEN plinten_count'
                           ELSE SumTo(word_counts'[p[2]], Len(word_counts'[p[2]]))
                IN  ws'[p[1]] = rule_total(p[2], raw)]_vars

\* a sheet generated with the six fields and generated again with three: the
\* last three header cells and the title cell are as they were
C17_Witness ==
    /\ gen_exit = "saved"
    /\ Rows = <<"ONDERKAST 600", TotalPriceLine>>
    /\ ws["C6"] = "x" /\ ws["C7"] = "y" /\ ws["C9"] = "z"
    /\ ws["C10"] = "d" /\ ws["D12"] = "e" /\ ws["G6"] = "f"
    /\ ws["E15"] = 1
    /\ ws["A1"] = "Opmetingsaanvraag"

(***************************************************************************)
(* Properties of the shopping cart                                         *)
(***************************************************************************)
\* the positions of the entries with the code
EntriesOf(its, code) == {i \in 1..Len(its) : its[i].appliance.code = code}

\* what add_item(a) makes of the items before
Added(before, after, a) ==
    IF EntriesOf(before, a.code) = {}
    THEN after = before \o <<[appliance |-> a, quantity |-> 1]>>
    ELSE /\ Len(after) = Len(before)
         /\ \A i \in EntriesOf(before, a.code) :
               /\ after[i].appliance = before[i].appliance
               /\ after[i].quantity = before[i].quantity + 1
         /\ \A i \in 1..Len(before) : i \notin EntriesOf(before, a.code) => after[i] = before[i]

\* C18: the cart holds at most one entry per appliance code and every entry has
\* a quantity of at least 1, whatever was added, removed and cleared; add_item
\* for a code in the cart adds one to that entry's quantity and adds no entry,
\* add_item for a new code appends one entry with quantity 1.
C18_CartInvariant ==
    /\ [](\A i \in 1..Len(items) :
             /\ items[i].quantity >= 1
             /\ EntriesOf(items, items[i].appliance.code) = {i})
    /\ [][\A a \in CartAppliances :
             cart_call' = <<"add_item", a>> => Added(items, items', a)]_vars

\* an entry added twice, through two appliances of one code, beside another entry
C18_Witness ==
    /\ cart_call = <<"add_item", Appliance("TEST001", "TestBrand", "oven", 5, None)>>
    /\ Len(items) = 2
    /\ items[1].appliance = Appliance("KOOK001", "Bosch", "kookplaat", 3, None)
    /\ items[2].appliance = Appliance("TEST001", "TestBrand", "oven", 0, None)
    /\ items[2].quantity = 2

RECURSIVE PointsOf(_, _)
\* the points of the first n entries: points times quantity, summed
PointsOf(its, n) ==
    IF n = 0 THEN 0
    ELSE PointsOf(its, n - 1) + its[n].appliance.points * its[n].quantity

\* what remove_item(a) makes of the items before
Removed(before, after, a) ==
    LET others == {i \in 1..Len(before) : before[i].appliance.code # a.code}
    IN  /\ Len(after) = Cardinality(others)
        /\ \A k \in 1..Len(after) : after[k] = before[NthOf(others, k)]
        /\ EntriesOf(before, a.code) = {} => after = before
        /\ get_total_points(after) =
              PointsOf(before, Len(before))
                  - SumTo([i \in 1..Len(before) |->
                              IF i \in others THEN 0
                              ELSE before[i].appliance.points * before[i].quantity],
                          Len(before))

\* C19: remove_item(appliance) removes the whole entry with the appliance's
\* code, whatever its quantity (the cart that held only this entry is empty,
\* with total points 0), leaves every other entry, its quantity and the order as
\* they were, and leaves the items as they were when no entry has the code.
C19_RemoveItem ==
    [][\A a \in CartAppliances :
          cart_call' = <<"remove_item", a>> =>
              /\ Removed(items, items', a)
              /\ EntriesOf(items', a.code) = {}
              /\ (\A i \in 1..Len(items) : items[i].appliance.code = a.code) =>
                    (items' = <<>> /\ get_total_points(items') = 0)]_vars

\* a remove that left the other entry of the cart, with its quantity of 2
C19_Witness ==
    /\ cart_call = <<"remove_item", Appliance("TEST001", "TestBrand", "oven", 0, None)>>
    /\ items = <<[appliance |-> Appliance("KOOK001", "Bosch", "kookplaat", 3, None),
                  quantity |-> 2]>>
    /\ get_total_points(items) = 6

(***************************************************************************)
(* Properties of the appliance filter                                      *)
(***************************************************************************)
\* a criterion on the category or the brand that constrains
Constrains(criterion) == criterion \notin {"None", "", "-"}

\* the appliance satisfies every criterion supplied
Satisfies(a, args) ==
    /\ Constrains(args.category) => a.category = args.category
    /\ Constrains(args.brand) => a.brand = args.brand
    /\ args.max_points # <<>> => a.points <= args.max_points[1]
    /\ args.search_term \notin {"None", ""} =>
          OccursCI(args.search_term, a.code) \/ OccursCI(args.search_term, a.brand)

\* C20: filter returns exactly the appliances of the source list that satisfy
\* all the supplied criteria (category equal, brand equal, points <= max_points,
\* search term in the code or the brand, letter case ignored), in the order of
\* the source list, which it does not change; a category or brand that is None,
\* empty or "-", and a search term that is None or empty, constrain nothing,
\* while max_points = 0 does.
C20_FilterReturnsMatches ==
    /\ [](filter_args # Unset =>
            LET apps == appliances[1]
                hits == {i \in 1..Len(apps) : Satisfies(apps[i], filter_args)}
            IN  /\ Len(result[1]) = Cardinality(hits)
                /\ \A k \in 1..Len(result[1]) : result[1][k] = apps[NthOf(hits, k)])
    /\ [][appliances # Unset => appliances' = appliances]_vars

\* a call with "-" for the brand, 0 for max_points and a search term in
\* another letter case than the brand: one of the two ovens is returned
C20_Witness ==
    /\ filter_args = [category |-> "oven", brand |-> "-", max_points |-> <<0>>,
                      search_term |-> "bos"]
    /\ Len(appliances[1]) = 4
    /\ appliances[1][2].code = "OVEN002"
    /\ result = <<<<appliances[1][2]>>>>

(***************************************************************************)
(* Properties of Data.py: what normalization keeps                         *)
(***************************************************************************)
\* the raw lines that carry the total-price label
C29_MarkerLines == {i \in 1..Len(text) : HasLabel(text[i])}

\* the raw line is found in the row: as the row, or as a part of it
PartOf(raw, row) == raw = row \/ raw = "" \/ Occurs(raw, row)

\* C29 as claimed: every raw line before the first raw line with the
\* total-price label that contains no forbidden substring itself is found in
\* the output.
C29_NoLineLost ==
    data_exit = "saved" =>
        \A i \in 1..Len(text) :
            (/\ \E m \in C29_MarkerLines : i < m
             /\ \A m \in C29_MarkerLines : i < m
             /\ ~IsNoise(text[i]))
            => \E r \in 1..Len(Data_xlsx[1]) : PartOf(text[i], Data_xlsx[1][r])

\* the remaining logical lines that carry the total-price label
C29_LabelLines == {k \in C3_Kept : HasLabel(new_lines[k])}

\* C29, amended: every raw line of a logical line that contains no forbidden
\* substring after merging, and that is not after the first remaining logical
\* line with the total-price label, is found in the output, in the row that is
\* its logical line.
C29_NoCleanLogicalLineLost ==
    data_exit = "saved" =>
        \A k \in 1..Cardinality(C1_Starts) :
            (/\ ~IsNoise(new_lines[k])
             /\ \A l \in C29_LabelLines : k <= l)
            => \E r \in 1..Len(Data_xlsx[1]) :
                  /\ Data_xlsx[1][r] = new_lines[k]
                  /\ \A i \in NthOf(C1_Starts, k)..C1_End(k) :
                        PartOf(text[i], Data_xlsx[1][r])

\* an order line kept with its continuation, before the total-price line
C29_Witness ==
    /\ data_exit = "saved"
    /\ text = <<"Kast A", "bovenzijde", TotalPriceLine>>
    /\ Data_xlsx = <<<<"Kast A bovenzijde", TotalPriceLine>>>>

\* C30 as claimed: normalization succeeds whenever a raw line carries the
\* total-price label; the error occurs only when no raw line carries it.
C30_MarkerLineSuffices ==
    (data_exit # "none" /\ \E i \in 1..Len(text) : HasLabel(text[i]))
        => data_exit = "saved"

\* C30, amended: normalization succeeds exactly when a logical line carries the
\* total-price label and, after merging, no forbidden substring; the error
\* occurs exactly for the inputs that leave no such logical line.
C30_CleanMarkerLineSuffices ==
    data_exit # "none" =>
        /\ data_exit = "saved" <=> (\E k \in 1..Len(new_lines) :
                                       HasLabel(new_lines[k]) /\ ~IsNoise(new_lines[k]))
        /\ data_exit = "StopIteration" <=> (\A k \in 1..Len(new_lines) :
                                               HasLabel(new_lines[k]) => IsNoise(new_lines[k]))

\* a total-price line lost to the noise of its continuation, and a second one
\* that ends the output
C30_Witness ==
    /\ data_exit = "saved"
    /\ text = <<TotalPriceLine, "zie Line n 4", TotalPriceLine>>
    /\ Data_xlsx = <<<<TotalPriceLine>>>>

(***************************************************************************)
(* Properties of ApplianceFilter: the option criterion                     *)
(***************************************************************************)
\* the appliances of the list apps of category c and option o, in order
OfCategoryAndOption(apps, c, o) ==
    LET match(a) == a.category = c /\ a.option = o IN SelectSeq(apps, match)

\* C21: a call filter(category=c, option=o) returns exactly the appliances
\* whose category equals c and whose option equals o.
C21_FilterByOption ==
    (filter_args # Unset /\ DOMAIN filter_args = {"category", "option"})
        => /\ filter_exit = "returned"
           /\ result = <<OfCategoryAndOption(appliances[1], filter_args.category,
                                              filter_args.option)>>

(***************************************************************************)
(* Properties of Appliance: the price conversions                          *)
(***************************************************************************)
\* r is v rounded to the nearest integer, a tie going up, for the
\* non-negative value v = n / 1000
IsHalfUpOfThousandths(r, n) == 2000 * r - 1000 <= 2 * n /\ 2 * n < 2000 * r + 1000

\* C22: the points of a non-negative integer catalog price c are
\* ceil((c - 0.5) / 0.685), and the catalog price of those points is c again.
C22_PriceRoundTrip ==
    (price_call # Unset /\ price_call[1] = "points_from_catalog_price")
        => LET c == price_call[2]
               p == price_result[1]
           IN  /\ p >= 0
               /\ 1370 * p >= 2000 * c - 1000
               /\ 1370 * (p - 1) < 2000 * c - 1000
               /\ IsHalfUpOfThousandths(price_result[2], 685 * p)
               /\ price_result[2] = c

C22_Witness ==
    /\ price_call = <<"points_from_catalog_price", 839>>
    /\ price_result = <<1225, 839>>

\* the category is "afzuigkappen", letter case ignored
IsHood(category) ==
    Len(category) = Len("afzuigkappen") /\ OccursCI("afzuigkappen", category)

\* C23: the internal price is round-half-up(points * 0.344) for the category
\* afzuigkappen in any letter case and round-half-up(points * 0.393) for every
\* other category.
C23_InternalPrice ==
    (price_call # Unset /\ price_call[1] = "internal_price")
        => LET a == price_call[2]
           IN  IF IsHood(a.category)
               THEN IsHalfUpOfThousandths(price_result[1], 344 * a.points)
               ELSE IsHalfUpOfThousandths(price_result[1], 393 * a.points)

C23_Witness ==
    /\ price_call = <<"internal_price", Priced("Afzuigkappen", 361)>>
    /\ price_result = <<124>>

(***************************************************************************)
(* Properties of sort_appliances                                           *)
(***************************************************************************)
\* the field of the appliance a the column label names
FieldOf(label, a) ==
    CASE label = "Punten" -> a.points
      [] label = "Merk" -> a.brand
      [] label = "Code" -> a.code
      [] label = "Categorie" -> a.category
      [] label = "Suboptie" -> a.option

\* a comes no later than b in the ascending order of the column
InOrder(label, a, b) ==
    IF label = "Punten" THEN a.points <= b.points
    ELSE StringLeq(FieldOf(label, a), FieldOf(label, b))

\* the lists hold the same appliances the same number of times
IsPermutation(s, t) ==
    /\ Len(s) = Len(t)
    /\ \A i \in 1..Len(s) :
          Cardinality({j \in 1..Len(s) : s[j] = s[i]})
              = Cardinality({j \in 1..Len(t) : t[j] = s[i]})

\* C24: sort_appliances(appliances, key, descending) returns a permutation of
\* the appliances, ascending by the field the column label names, descending
\* when descending is set.
C24_SortAppliancesProvided ==
    sort_call # Unset =>
        /\ sort_exit = "returned"
        /\ sort_result # Unset
        /\ IsPermutation(sort_result[1], sort_call[1])
        /\ \A i \in 1..Len(sort_result[1]) - 1 :
              IF sort_call[3]
              THEN InOrder(sort_call[2], sort_result[1][i + 1], sort_result[1][i])
              ELSE InOrder(sort_call[2], sort_result[1][i], sort_result[1][i + 1])

(***************************************************************************)
(* Properties of ImageCache                                                *)
(***************************************************************************)
\* the keys the entries of c are stored under
KeysIn(c) == {c[i][1] : i \in 1..Len(c)}

\* the image c stores under key
StoredUnder(c, key) == c[CHOOSE i \in 1..Len(c) : c[i][1] = key][2]

\* the entries of c under the other keys, in order
Without(c, key) == LET other(e) == e[1] # key IN SelectSeq(c, other)

\* the key the load_image call of a step asks for
C25_Key ==
    <<load_call'[1], IF load_call'[2] = <<>> THEN <<160, 110>> ELSE load_call'[2]>>

C26_ObserversNotified ==
    [][cart_call'[1] \in {"add_item", "remove_item", "clear"} =>
          /\ Len(notified') = Len(observers)
          /\ \A i \in 1..Len(observers) :
                /\ notified'[i].callback = observers[i]
                /\ notified'[i].sees = items'
          /\ cart_exit' = "returned"
          /\ observers' = observers
      ]_vars

\* an appliance removed under a raising observer registered before a
\* returning one
C26_Witness ==
    /\ observers = <<"raises", "returns">>
    /\ cart_call = <<"remove_item", Appliance("KOOK001", "Bosch", "kookplaat", 3, None)>>
    /\ Len(items) = 1
    /\ notified = <<[callback |-> "raises", sees |-> items],
                    [callback |-> "returns", sees |-> items]>>
    /\ cart_exit = "returned"

(***************************************************************************)
(* Properties of the application: filter changes and cart totals           *)
(***************************************************************************)
\* str without its leading and trailing blanks
Trimmed(str) ==
    LET solid == {i \in 1..Len(str) : CharAt(str, i) # " "}
    IN  IF solid = {} THEN ""
        ELSE SubSeq(str, NthOf(solid, 1), NthOf(solid, Cardinality(solid)))

\* the limit of the selected block: <<max_points>>, or <<>> without such a block
SelectedLimit ==
    LET named == {i \in 1..Len(blocks[1]) : blocks[1][i].name = block_var}
    IN  IF named = {} THEN <<>> ELSE <<blocks[1][CHOOSE i \in named : TRUE].max_points>>

\* the criteria the variables of the filter panel stand for
SelectedCriteria ==
    [category |-> category_var, brand |-> brand_var, max_points |-> SelectedLimit,
     search_term |-> Trimmed(search_var)]

\* C27: an event nests _on_filter_change at most twice, and when it is over
\* the selected brand is in the brand list of the current category and block
\* and the results panel shows filter(category, brand, max_points, search) for
\* the current values of the variables.
C27_FilterChangeSettles ==
    blocks # Unset =>
        LET apps == appliances[1]
            hits == {i \in 1..Len(apps) : Satisfies(apps[i], SelectedCriteria)}
        IN  /\ nesting <= 2
            /\ \/ brand_var = "-"
               \/ \E i \in 1..Len(apps) :
                     /\ apps[i].category = category_var
                     /\ apps[i].brand = brand_var
                     /\ SelectedLimit # <<>> => apps[i].points <= SelectedLimit[1]
            /\ \E k \in 1..Len(brand_values) : brand_values[k] = brand_var
            /\ Len(appliance_rows) = Cardinality(hits)
            /\ \A k \in 1..Len(appliance_rows) : appliance_rows[k] = apps[NthOf(hits, k)]

\* with an appliance in the cart, the selection of a block made the brand list
\* drop the selected brand: the nested call has run
C27_Witness ==
    /\ items # <<>>
    /\ nesting = 2
    /\ block_var = "Blok A"
    /\ category_var = "kookplaat"
    /\ brand_values = <<"-", "Bosch">>
    /\ brand_var = "-"
    /\ Len(appliance_rows) = 1

\* the points in the cart
CartPoints ==
    SumTo([i \in 1..Len(items) |-> items[i].appliance.points * items[i].quantity],
          Len(items))

\* C28: while a block is selected the totals show the points of the current
\* cart, and what the limit of the selected block leaves of them, as an
\* overshoot exactly when that is negative.
C28_TotalsCurrent ==
    (blocks # Unset /\ SelectedLimit # <<>>) =>
        /\ totals_label # <<>>
        /\ totals_label[1].total_points = CartPoints
        /\ totals_label[1].status =
              IF SelectedLimit[1] - CartPoints < 0
              THEN <<"Overschrijding", CartPoints - SelectedLimit[1]>>
              ELSE <<"Resterend", SelectedLimit[1] - CartPoints>>
        /\ panel_max_points = SelectedLimit[1]

\* an appliance above the limit of the selected block is left in the cart
\* after the other one was removed
C28_Witness ==
    /\ block_var = "Blok A"
    /\ cart_call = <<"remove_item", Appliance("KOOK001", "Bosch", "kookplaat", 80, None)>>
    /\ Len(items) = 1
    /\ items[1].appliance.code = "KOOK002"
    /\ items[1].quantity = 1
    /\ totals_label = <<[total_points |-> 120, total_price |-> 47,
                         status |-> <<"Overschrijding", 20>>]>>
====
